---- MODULE Spec2Model ----
(***************************************************************************)
(* A model of the swap client of fluxor-xinlet:                            *)
(*   - the payment tracking of the BulkSwap / SplitSwap components         *)
(*     (order list, payment modal, polling effect, auto-close effect,      *)
(*     manual order-status check);                                         *)
(*   - Web3Client.doRequest (signing, attempt loop, retry policy);         *)
(*   - batch creation in handleCalculateSwap (bulk and split).             *)
(* Each part has its own specification over its own group of variables;    *)
(* the variables of the other parts stay at their initial values.          *)
(***************************************************************************)
EXTENDS Integers, Sequences, FiniteSets, TLC

\* ------------------------------------------------------------------------
\* Bounds of the model
\* ------------------------------------------------------------------------

\* Orders in one batch.
MaxOrders == 2
\* Batches created during one life of the component.
MaxBatches == 1
\* Ledger checks of torn-down effect instances still in flight, per order.
MaxStale == 2
\* Auto-close timers pending at once.
MaxTimers == 2
\* Largest retryCount a client is configured with.
MaxRetry == 3
\* Price lookups of handleAddBuyToken in flight at once.
MaxLookups == 2
\* Targets of a split plan.
MaxTargets == 3
\* Calls of the callbacks of useMixinSwap in flight at once.
MaxHookCalls == 3
\* Price lookups in flight at once where runs of handleCalculateSwap are
\* followed as well.
MaxRunLookups == 1
\* Half seconds the clock advances during one doRequest call.
MaxTicks == 3
\* Web3Client instances alive at once.
MaxClients == 2
\* Requests one instance has in progress at once.
MaxRequests == 2
\* Changes of the route bot's session key.
MaxRotations == 1
\* Derivations one instance of mixin-route-client-correct may begin.
MaxDerivations == 3

VARIABLES
    \* --- BulkSwap / SplitSwap: React state
    swapOrders,         \* sequence of [orderId, traceId, isPaid]
    showPaymentModal,
    isCalculating,
    isCheckingStatus,
    \* --- the live instance of the polling effect
    pollingFlags,       \* traceIds whose ledger check of this instance is in flight
    pollingInterval,    \* TRUE while the 5 s interval of this instance is set
    \* --- asynchronous work outside the live effect instance
    staleChecks,        \* per order: in-flight ledger checks of torn-down instances
    statusResults,      \* per order: result slot of the latest handleCheckAllOrders
    closeTimers,        \* pending 3 s auto-close timeouts
    \* --- the services
    orderState,         \* per order: state held by the swap service
    ledger,             \* per order: state of the payment trace on the ledger
    \* --- bookkeeping
    batches,            \* batches published so far
    emitted,            \* toasts emitted by the latest step
    \* --- Web3Client: one doRequest call
    retryCount,         \* this.retryCount
    reqPc,              \* where the call stands
    attempt,            \* the loop variable
    history,            \* what each fetch of the call ended in, in order
    lastError,          \* the local lastError
    reqResult,          \* the value the call returned
    reqError,           \* the error the call threw to its caller
    clock,              \* Date.now(), in milliseconds
    timestamp,          \* the local timestamp of the call
    signature,          \* the local signature of the call
    sentHeaders,        \* the headers of each fetch of the call, in order
    \* --- batch creation: the plan and the run of handleCalculateSwap
    component,          \* "bulk" or "split": the component that is mounted
    selectedAssetIds,   \* BulkSwap: the selected source assets, in insertion order
    outputToken,        \* BulkSwap: the target asset, "none" while not set
    selectedAssetId,    \* SplitSwap: the source asset, "none" while not set
    buyTokens,          \* SplitSwap: sequence of [assetId, percentage]
    addPending,         \* SplitSwap: per asset, price lookups of handleAddBuyToken in flight
    items,              \* the swapPromises of the latest run: [percentage, sameAsset, st]
    netCalls,           \* the service calls the latest run has issued
    failureToasts,      \* per item of the latest run: creation-failure toasts
    \* --- Web3Client instances: the shared key of request signing
    variant,            \* "client": mixin-route-client; "correct": mixin-route-client-correct
    cachedRouteBotPublicKey, \* the module-level cache of mixin-route-client
    botKey,             \* the route bot's session public key, as the Mixin API has it
    rotations,          \* how often the route bot has changed its session key
    seedLen,            \* per instance: bytes of keystore.session_private_key
    optionKey,          \* per instance: options.routeBotPublicKey ("correct" only)
    sharedKeyPromise,   \* per instance: "null", "pending", "resolved", "rejected"
    derivation,         \* per instance: where the body of sharedKeyPromise stands
    sharedKey,          \* per instance: the secret the promise / the cache holds
    derivations,        \* per instance: derivations begun
    resolutions,        \* per instance: public-key resolutions that went to the network
    sigPc,              \* per request: "idle", "awaitKey" (the promise was pending or
                        \* new when awaited), "awaitSettled", "signed", "failed"
    usedKey,            \* per request: the secret its latest signature was made with
    \* --- MixinSwapService under useMixinSwap: one operation at a time
    svcOp,              \* the operation the caller has invoked, "none" before the first
    svcPc,              \* "idle", "sign", "http", "settled", "returned"
    svcCall,            \* the client method in progress: "tokens", "quote", "swap"
    svcCalls,           \* client methods invoked by the operation so far
    svcPayload,         \* the payload handed to client.swap
    svcQuote,           \* the quote the operation has obtained
    httpLog,            \* route-API requests doRequest has sent for the operation
    clientError,        \* the error the client threw to the service
    svcResult,          \* what the service operation returned
    svcError,           \* what the service operation threw
    hookQuote,          \* useMixinSwap: the quote state
    hookError,          \* what the hook's callback threw to the component
    \* --- one derivation of a shared secret, step by step
    dPath,              \* the file whose functions run: "client", "v2", "correct"
    dSeed,              \* keystore.session_private_key
    dRemote,            \* the route bot's public key, as handed in
    dIsHex,             \* calculateSharedKey's isHex
    dPc,                \* "start", "scalar", "point", "done", "thrown"
    dScalar,            \* curve25519Private, as the term that computes it
    dPoint,             \* the u-coordinate handed to the exchange, as a term
    dSecret,            \* the shared secret, as a term
    \* --- useMixinSwap with several callbacks in flight
    loading,            \* the loading state
    errorMsg,           \* the error state: "null" or the callback whose message it is
    tokensLoaded,       \* the tokens state holds the list of a loadTokens call
    quoteShown,         \* the quote state: "null" or the callback that set it
    inFlight,           \* per call: the callback awaiting its service, or "none"
    \* --- the clamp of ed25519PrivateToCurve25519 on one digest
    cInput,             \* bytes 0, 1 and 31 of digest.slice(0, 32)
    cScalar,            \* the same bytes of curve25519Private
    cPc                 \* "copied", "clamped", "reclamped"

trackVars == <<swapOrders, showPaymentModal, isCalculating, isCheckingStatus,
               pollingFlags, pollingInterval, staleChecks, statusResults,
               closeTimers, orderState, ledger, batches, emitted>>

reqVars == <<retryCount, reqPc, attempt, history, lastError, reqResult, reqError,
             clock, timestamp, signature, sentHeaders>>

createVars == <<component, selectedAssetIds, outputToken, selectedAssetId, buyTokens,
                addPending, items, netCalls, failureToasts>>

keyVars == <<variant, cachedRouteBotPublicKey, botKey, rotations, seedLen, optionKey,
             sharedKeyPromise, derivation, sharedKey, derivations, resolutions,
             sigPc, usedKey>>

\* Everything of the Web3Client side.
svcVars == <<svcOp, svcPc, svcCall, svcCalls, svcPayload, svcQuote, httpLog,
             clientError, svcResult, svcError, hookQuote, hookError>>

drvVars == <<dPath, dSeed, dRemote, dIsHex, dPc, dScalar, dPoint, dSecret>>

hookVars == <<loading, errorMsg, tokensLoaded, quoteShown, inFlight>>

clampVars == <<cInput, cScalar, cPc>>

clientVars == <<reqVars, keyVars, svcVars, drvVars, hookVars, clampVars>>

vars == <<trackVars, reqVars, createVars, keyVars, svcVars, drvVars, hookVars,
          clampVars>>

notTrackVars == <<clientVars, createVars>>

notReqVars == <<trackVars, createVars, keyVars, svcVars, drvVars, hookVars, clampVars>>

notKeyVars == <<trackVars, createVars, reqVars, svcVars, drvVars, hookVars, clampVars>>

notSvcVars == <<trackVars, createVars, reqVars, keyVars, drvVars, hookVars, clampVars>>

notDrvVars == <<trackVars, createVars, reqVars, keyVars, svcVars, hookVars, clampVars>>

notHookVars == <<trackVars, createVars, reqVars, keyVars, svcVars, drvVars, clampVars>>

notClampVars == <<trackVars, createVars, reqVars, keyVars, svcVars, drvVars, hookVars>>

\* ------------------------------------------------------------------------
\* Orders
\* ------------------------------------------------------------------------

OrderIds == 1..(MaxBatches * MaxOrders)

\* SwapOrderState of the service; "none" before the order exists.
SwapOrderState == {"created", "pending", "success", "failed"}

\* The orders of the batch published as number b, n of them.
NewOrders(b, n) ==
    [k \in 1..n |->
        [orderId |-> (b - 1) * MaxOrders + k,
         traceId |-> (b - 1) * MaxOrders + k,
         isPaid  |-> FALSE]]

TraceIds(orders) == {orders[k].traceId : k \in DOMAIN orders}

IsPaid(orders, id) == \E k \in DOMAIN orders : orders[k].traceId = id /\ orders[k].isPaid

\* setSwapOrders(prev => prev.map(o => o.traceId === traceId ? {...o, isPaid: true} : o))
MarkPaidByTrace(orders, id) ==
    [k \in DOMAIN orders |->
        IF orders[k].traceId = id THEN [orders[k] EXCEPT !.isPaid = TRUE] ELSE orders[k]]

\* setSwapOrders(prev => prev.map(o => o.orderId === orderId
\*                                    ? {...o, isPaid: order.state === "success"} : o))
SetPaidByOrderState(orders, id, state) ==
    [k \in DOMAIN orders |->
        IF orders[k].orderId = id
            THEN [orders[k] EXCEPT !.isPaid = (state = "success")]
            ELSE orders[k]]

\* swapOrders.length > 0 && swapOrders.every(order => order.isPaid)
AllOrdersPaid(orders) ==
    Len(orders) > 0 /\ \A k \in DOMAIN orders : orders[k].isPaid

\* The orders for which checkPaymentStatus of a fresh effect instance goes on
\* to fetchTransaction: not paid (the fresh pollingFlags map is empty).
UnpaidTraces(orders) ==
    {orders[k].traceId : k \in {j \in DOMAIN orders : ~orders[j].isPaid}}

\* ------------------------------------------------------------------------
\* The two effects over swapOrders
\* ------------------------------------------------------------------------

\* The polling effect re-runs (deps: showPaymentModal, swapOrders): the cleanup
\* of the previous instance clears its interval and its flags, its in-flight
\* checks go on as stale ones; the new instance checks every order at once and
\* sets its interval. flags and st are the flags and the stale checks at the
\* time of the cleanup.
PollingEffect(orders, modal, flags, st) ==
    /\ staleChecks' = [i \in OrderIds |-> st[i] + (IF i \in flags THEN 1 ELSE 0)]
    /\ \A i \in OrderIds : staleChecks'[i] <= MaxStale
    /\ IF modal /\ Len(orders) > 0
          THEN /\ pollingInterval' = TRUE
               /\ pollingFlags' = UnpaidTraces(orders)
          ELSE /\ pollingInterval' = FALSE
               /\ pollingFlags' = {}

\* The auto-close effect re-runs (deps: swapOrders): toast, then a 3 s timeout.
\* toasts are the toasts the step has emitted before the effect runs.
AutoCloseEffect(orders, toasts) ==
    IF AllOrdersPaid(orders)
        THEN /\ closeTimers' = closeTimers + 1
             /\ closeTimers' <= MaxTimers
             /\ emitted' = toasts \cup {<<"allPaid", 0>>}
        ELSE /\ closeTimers' = closeTimers
             /\ emitted' = toasts

\* The plan is cleared with the batch: setSelectedAssetIds(new Set()) in
\* BulkSwap, setSelectedAssetId(null) and setBuyTokens([]) in SplitSwap.
ClearPlan ==
    IF component = "bulk"
        THEN selectedAssetIds' = <<>> /\ UNCHANGED <<selectedAssetId, buyTokens>>
        ELSE selectedAssetId' = "none" /\ buyTokens' = <<>> /\ UNCHANGED selectedAssetIds

\* What of the other parts the closing of a batch leaves alone.
ClosingFrame ==
    UNCHANGED <<clientVars, component, outputToken, addPending, items, netCalls,
                failureToasts>>

\* ------------------------------------------------------------------------
\* Initial state: the component is mounted, no batch yet
\* ------------------------------------------------------------------------

InitTrack ==
    /\ swapOrders = <<>>
    /\ showPaymentModal = FALSE
    /\ isCalculating = FALSE
    /\ isCheckingStatus = FALSE
    /\ pollingFlags = {}
    /\ pollingInterval = FALSE
    /\ staleChecks = [i \in OrderIds |-> 0]
    /\ statusResults = [i \in OrderIds |-> "idle"]
    /\ closeTimers = 0
    /\ orderState = [i \in OrderIds |-> "none"]
    /\ ledger = [i \in OrderIds |-> "absent"]
    /\ batches = 0
    /\ emitted = {}

\* ------------------------------------------------------------------------
\* handleCalculateSwap, as the tracker sees it: the list is emptied when the
\* run starts and the valid orders are published when every creation settled
\* ------------------------------------------------------------------------

\* The button sits under the payment modal's full-screen overlay while the
\* modal is shown, and is disabled while isCalculating.
HandleCalculateSwapStart ==
    /\ UNCHANGED notTrackVars
    /\ ~isCalculating
    /\ ~(showPaymentModal /\ Len(swapOrders) > 0)
    /\ batches < MaxBatches
    /\ isCalculating' = TRUE
    /\ swapOrders' = <<>>
    /\ PollingEffect(<<>>, showPaymentModal, pollingFlags, staleChecks)
    /\ AutoCloseEffect(<<>>, {})
    /\ UNCHANGED <<showPaymentModal, isCheckingStatus, statusResults,
                   orderState, ledger, batches>>

\* n creations succeeded.
HandleCalculateSwapFinish(n) ==
    /\ UNCHANGED notTrackVars
    /\ isCalculating
    /\ isCalculating' = FALSE
    /\ batches' = batches + 1
    /\ IF n > 0
          THEN /\ swapOrders' = NewOrders(batches + 1, n)
               /\ showPaymentModal' = TRUE
               /\ orderState' = [i \in OrderIds |->
                                    IF i \in TraceIds(swapOrders') THEN "created"
                                                                   ELSE orderState[i]]
               /\ PollingEffect(swapOrders', TRUE, pollingFlags, staleChecks)
               /\ AutoCloseEffect(swapOrders', {})
          ELSE /\ emitted' = {<<"allCreationsFailed", 0>>}
               /\ UNCHANGED <<swapOrders, showPaymentModal, orderState, pollingFlags,
                              pollingInterval, staleChecks, closeTimers>>
    /\ UNCHANGED <<isCheckingStatus, statusResults, ledger>>

\* ------------------------------------------------------------------------
\* The payment modal
\* ------------------------------------------------------------------------

\* The modal's close button: setShowPaymentModal(false). swapOrders stays.
CloseModal ==
    /\ UNCHANGED notTrackVars
    /\ showPaymentModal /\ Len(swapOrders) > 0
    /\ showPaymentModal' = FALSE
    /\ PollingEffect(swapOrders, FALSE, pollingFlags, staleChecks)
    /\ emitted' = {}
    /\ UNCHANGED <<swapOrders, isCalculating, isCheckingStatus, statusResults,
                   closeTimers, orderState, ledger, batches>>

\* The modal's check button (disabled while isCheckingStatus): one
\* handleCheckOrderStatus, hence one getSwapOrder, per order of the list.
HandleCheckAllOrders ==
    /\ UNCHANGED notTrackVars
    /\ showPaymentModal /\ Len(swapOrders) > 0
    /\ ~isCheckingStatus
    /\ isCheckingStatus' = TRUE
    /\ statusResults' = [i \in OrderIds |->
                            IF i \in TraceIds(swapOrders) THEN "wait" ELSE "idle"]
    /\ emitted' = {}
    /\ UNCHANGED <<swapOrders, showPaymentModal, isCalculating, pollingFlags,
                   pollingInterval, staleChecks, closeTimers, orderState, ledger,
                   batches>>

\* What getSwapOrder can answer for an order: its state, or a failure ("null",
\* the value handleCheckOrderStatus returns from its catch).
StatusOutcomes(id) == {"null", orderState[id]}

\* getSwapOrder of handleCheckOrderStatus(id) settles with resp; when it is the
\* last one of the handleCheckAllOrders call, Promise.all resolves and the rest
\* of handleCheckAllOrders runs in the same turn.
StatusResponse(id, resp) ==
    /\ ClosingFrame
    /\ statusResults[id] = "wait"
    /\ resp \in StatusOutcomes(id)
    /\ LET results  == [statusResults EXCEPT ![id] = resp]
           done     == \A i \in OrderIds : results[i] # "wait"
           allPaid  == \A i \in OrderIds : results[i] \in {"idle", "success"}
           orders1  == IF resp = "null" THEN swapOrders
                       ELSE SetPaidByOrderState(swapOrders, id, resp)
           toasts1  == IF resp = "success" THEN {<<"paid", id>>} ELSE {}
           closing  == done /\ allPaid
           toasts2  == IF closing THEN toasts1 \cup {<<"allPaid", 0>>} ELSE toasts1
       IN  /\ statusResults' = results
           /\ isCheckingStatus' = ~done
           /\ swapOrders' = IF closing THEN <<>> ELSE orders1
           /\ showPaymentModal' = IF closing THEN FALSE ELSE showPaymentModal
           /\ IF closing THEN ClearPlan
                         ELSE UNCHANGED <<selectedAssetIds, selectedAssetId, buyTokens>>
           /\ IF resp # "null"
                 THEN /\ PollingEffect(swapOrders', showPaymentModal', pollingFlags,
                                       staleChecks)
                      /\ AutoCloseEffect(swapOrders', toasts2)
                 ELSE /\ emitted' = toasts2
                      /\ UNCHANGED <<pollingFlags, pollingInterval, staleChecks,
                                     closeTimers>>
    /\ UNCHANGED <<isCalculating, orderState, ledger, batches>>

\* ------------------------------------------------------------------------
\* The polling effect's checks of the ledger trace
\* ------------------------------------------------------------------------

\* setInterval(checkAllPayments, 5000) fires: checkPaymentStatus for every order
\* of the instance's list; it returns early for a flagged or a paid order.
IntervalTick ==
    /\ UNCHANGED notTrackVars
    /\ pollingInterval
    /\ pollingFlags' = pollingFlags \cup UnpaidTraces(swapOrders)
    /\ emitted' = {}
    /\ UNCHANGED <<swapOrders, showPaymentModal, isCalculating, isCheckingStatus,
                   pollingInterval, staleChecks, statusResults, closeTimers,
                   orderState, ledger, batches>>

\* What fetchTransaction(traceId) can answer: a transaction in its state, 404
\* while the trace is not on the ledger, or another failure.
LedgerOutcomes(id) ==
    {"error"} \cup (IF ledger[id] = "absent" THEN {"404"} ELSE {ledger[id]})

\* The flag of a check that threw stays set.
FlagKeptOnFailure(flags, id) == flags

\* finally { pollingFlags.delete(traceId) }, whatever the check ended in.
ReleaseFlag(flags, id) == flags \ {id}

\* A check of the live effect instance settles.
LedgerResponse(id, out) ==
    /\ UNCHANGED notTrackVars
    /\ id \in pollingFlags
    /\ out \in LedgerOutcomes(id)
    /\ IF out = "spent"
          THEN /\ swapOrders' = MarkPaidByTrace(swapOrders, id)
               /\ PollingEffect(swapOrders', showPaymentModal, pollingFlags \ {id},
                                staleChecks)
               /\ AutoCloseEffect(swapOrders', {<<"paid", id>>})
          ELSE /\ pollingFlags' = ReleaseFlag(pollingFlags, id)
               /\ emitted' = {}
               /\ UNCHANGED <<swapOrders, pollingInterval, staleChecks, closeTimers>>
    /\ UNCHANGED <<showPaymentModal, isCalculating, isCheckingStatus, statusResults,
                   orderState, ledger, batches>>

\* A check started by an effect instance that has been cleaned up settles: its
\* continuation runs all the same (its finally deletes from the old flag map).
StaleLedgerResponse(id, out) ==
    /\ UNCHANGED notTrackVars
    /\ staleChecks[id] > 0
    /\ out \in LedgerOutcomes(id)
    /\ LET st == [staleChecks EXCEPT ![id] = @ - 1]
       IN  IF out = "spent"
              THEN /\ swapOrders' = MarkPaidByTrace(swapOrders, id)
                   /\ PollingEffect(swapOrders', showPaymentModal, pollingFlags, st)
                   /\ AutoCloseEffect(swapOrders', {<<"paid", id>>})
              ELSE /\ staleChecks' = st
                   /\ emitted' = {}
                   /\ UNCHANGED <<swapOrders, pollingFlags, pollingInterval,
                                  closeTimers>>
    /\ UNCHANGED <<showPaymentModal, isCalculating, isCheckingStatus, statusResults,
                   orderState, ledger, batches>>

\* The timeout of the auto-close effect fires.
AutoCloseTimerFires ==
    /\ ClosingFrame
    /\ ClearPlan
    /\ closeTimers > 0
    /\ closeTimers' = closeTimers - 1
    /\ showPaymentModal' = FALSE
    /\ swapOrders' = <<>>
    /\ PollingEffect(<<>>, FALSE, pollingFlags, staleChecks)
    /\ emitted' = {}
    /\ UNCHANGED <<isCalculating, isCheckingStatus, statusResults, orderState,
                   ledger, batches>>

\* ------------------------------------------------------------------------
\* The services
\* ------------------------------------------------------------------------

\* The user pays: the trace appears on the ledger, then is spent.
LedgerAdvance(id) ==
    /\ UNCHANGED notTrackVars
    /\ orderState[id] # "none"
    /\ ledger[id] # "spent"
    /\ ledger' = [ledger EXCEPT ![id] = IF @ = "absent" THEN "signed" ELSE "spent"]
    /\ emitted' = {}
    /\ UNCHANGED <<swapOrders, showPaymentModal, isCalculating, isCheckingStatus,
                   pollingFlags, pollingInterval, staleChecks, statusResults,
                   closeTimers, orderState, batches>>

\* The swap service moves the order on: created -> pending -> success | failed.
OrderAdvance(id, to) ==
    /\ UNCHANGED notTrackVars
    /\ \/ orderState[id] = "created" /\ to = "pending"
       \/ orderState[id] = "pending" /\ to \in {"success", "failed"}
    /\ orderState' = [orderState EXCEPT ![id] = to]
    /\ emitted' = {}
    /\ UNCHANGED <<swapOrders, showPaymentModal, isCalculating, isCheckingStatus,
                   pollingFlags, pollingInterval, staleChecks, statusResults,
                   closeTimers, ledger, batches>>

NextTrack ==
    \/ HandleCalculateSwapStart
    \/ \E n \in 0..MaxOrders : HandleCalculateSwapFinish(n)
    \/ CloseModal
    \/ HandleCheckAllOrders
    \/ \E id \in OrderIds : \E resp \in SwapOrderState \cup {"null"} :
            StatusResponse(id, resp)
    \/ IntervalTick
    \/ \E id \in OrderIds : \E out \in {"error", "404", "signed", "spent"} :
            LedgerResponse(id, out)
    \/ \E id \in OrderIds : \E out \in {"error", "404", "signed", "spent"} :
            StaleLedgerResponse(id, out)
    \/ AutoCloseTimerFires
    \/ \E id \in OrderIds : LedgerAdvance(id)
    \/ \E id \in OrderIds : \E to \in SwapOrderState : OrderAdvance(id, to)


\* ------------------------------------------------------------------------
\* Completion checks in flight, and what a step starts
\* ------------------------------------------------------------------------

\* Ledger-trace checks (fetchTransaction) in flight for an order.
LedgerInFlight(flags, st, id) == st[id] + (IF id \in flags THEN 1 ELSE 0)

\* Order-status checks (getSwapOrder) in flight for an order.
StatusInFlight(results, id) == IF results[id] = "wait" THEN 1 ELSE 0

ChecksInFlight(id) ==
    LedgerInFlight(pollingFlags, staleChecks, id) + StatusInFlight(statusResults, id)

\* The step starts a ledger check, or an order-status check, for the order. (A
\* step that settles a check for an order never starts one for the same order
\* unless it marks it paid, and then it starts none: so a start shows as a
\* growth of the number in flight.)
StartsLedgerCheck(id) ==
    LedgerInFlight(pollingFlags', staleChecks', id)
        > LedgerInFlight(pollingFlags, staleChecks, id)

StartsStatusCheck(id) ==
    StatusInFlight(statusResults', id) > StatusInFlight(statusResults, id)

\* The batch is torn down: the modal is closed, so the polling effect's cleanup
\* has run and no instance is live.
TornDown == Len(swapOrders) > 0 /\ ~showPaymentModal

\* ------------------------------------------------------------------------
\* C1..C8 over the payment tracking
\* ------------------------------------------------------------------------

\* C1: once an order is marked paid, no later step marks it unpaid while it
\* stays in the order list.
C1_PaidIsFinal ==
    [][\A id \in OrderIds :
          (IsPaid(swapOrders, id) /\ id \in TraceIds(swapOrders'))
              => IsPaid(swapOrders', id)]_vars

\* C5: for any one order at most one completion check (ledger-trace or
\* order-status) is in flight at any time.
C5_OneCheckInFlight == \A id \in OrderIds : ChecksInFlight(id) <= 1

\* C6: a reported 'success' or 'spent' marks the order paid in the same step
\* (while it is in the list), and no ledger-trace or order-status check is
\* started for an order that is marked paid.
C6_ConfirmedStopsPolling ==
    [][\A id \in OrderIds :
          /\ (<<"paid", id>> \in emitted' /\ id \in TraceIds(swapOrders'))
                => IsPaid(swapOrders', id)
          /\ IsPaid(swapOrders, id)
                => ~StartsLedgerCheck(id) /\ ~StartsStatusCheck(id)]_vars

\* C7: after the batch is torn down no check is started for any of its orders,
\* and a check that settles changes neither the order list nor the modal, emits
\* no toast and schedules no close timer.
C7_TornDownIsSilent ==
    [][TornDown =>
          /\ \A id \in TraceIds(swapOrders) :
                ~StartsLedgerCheck(id) /\ ~StartsStatusCheck(id)
          /\ (\E id \in OrderIds : \E out \in {"error", "404", "signed", "spent"} :
                    StaleLedgerResponse(id, out))
                => /\ swapOrders' = swapOrders
                   /\ showPaymentModal' = showPaymentModal
                   /\ emitted' = {}
                   /\ closeTimers' = closeTimers]_vars

\* The latest handleCheckAllOrders has settled and found every order of the
\* list in a terminal state, one of them failed.
BatchSeenTerminalWithFailure ==
    /\ Len(swapOrders) > 0
    /\ ~isCheckingStatus
    /\ \A id \in TraceIds(swapOrders) : statusResults[id] \in {"success", "failed"}
    /\ \E id \in TraceIds(swapOrders) : statusResults[id] = "failed"

\* C8: a batch whose orders have all been seen terminal is reported and is no
\* longer pending: it is not left on display and polled.
C8_TerminalBatchIsReported ==
    BatchSeenTerminalWithFailure => ~(showPaymentModal /\ pollingInterval)

\* ------------------------------------------------------------------------
\* Web3Client.doRequest
\* ------------------------------------------------------------------------

\* Statuses the service answers with: success, 202, a 3xx, both ends of 4xx,
\* and a 5xx.
Statuses == {200, 202, 304, 400, 499, 500}

\* Bodies: a JSON envelope {data: ...}, a JSON envelope {error: {...}}, and a
\* body that is not JSON.
Bodies == {"data", "error", "garbage"}

\* What one fetch can end in: a rejection (network failure, which stands for a
\* failure while the body is read as well), the abort of the timeout, or a
\* response.
FetchOutcomes ==
    {[kind |-> "network", status |-> 0, body |-> "none"],
     [kind |-> "timeout", status |-> 0, body |-> "none"]}
    \cup {[kind |-> "response", status |-> st, body |-> b] : st \in Statuses, b \in Bodies}

NoError == [name |-> "none", statusCode |-> 0, code |-> FALSE]

\* Response.ok
ResponseOk(status) == status >= 200 /\ status <= 299

\* if (!response.ok || response.status === 202)
IsErrorResponse(o) == ~ResponseOk(o.status) \/ o.status = 202

\* The MixinRouteAPIError built from an error response: statusCode always,
\* code (description, range) when the body parses and holds an error object.
ErrorOfResponse(o) ==
    [name |-> "MixinRouteAPIError", statusCode |-> o.status, code |-> (o.body = "error")]

\* What the try block of one attempt throws for a fetch outcome; NoError when it
\* returns.
AttemptError(o) ==
    IF o.kind = "network" THEN [name |-> "TypeError", statusCode |-> 0, code |-> FALSE]
    ELSE IF o.kind = "timeout" THEN [name |-> "AbortError", statusCode |-> 0, code |-> FALSE]
    ELSE IF IsErrorResponse(o) THEN ErrorOfResponse(o)
    ELSE IF o.body = "garbage"
        THEN [name |-> "SyntaxError", statusCode |-> 0, code |-> FALSE]
    ELSE NoError

\* What the try block returns: result.data when the parsed object has a data
\* field, the parsed object itself otherwise.
AttemptValue(o) == IF o.body = "data" THEN "data" ELSE "envelope"

\* The catch block's test: a MixinRouteAPIError with 400 <= statusCode < 500
\* is thrown on.
\* A variant of the test that lets status 400 through to the retry.
IsClientErrorAbove400(err) ==
    /\ err.name = "MixinRouteAPIError"
    /\ err.statusCode > 400
    /\ err.statusCode < 500

IsClientError(err) ==
    /\ err.name = "MixinRouteAPIError"
    /\ err.statusCode >= 400
    /\ err.statusCode < 500

\* if (attempt < this.retryCount) await the retry delay
WaitsBeforeRetry(a, n) == a < n

\* A variant of the loop test that makes retryCount the number of fetches.
LoopStopsOneEarly(a, n) == a < n

\* for (...; attempt <= this.retryCount; ...)
LoopContinues(a, n) == a <= n

\* throw lastError || new Error("Request failed")
ErrorAfterLoop(err) ==
    IF err = NoError THEN [name |-> "Error", statusCode |-> 0, code |-> FALSE] ELSE err

\* The values of Date.now() during a call: half-second steps across the change
\* from 9 s to 10 s.
ClockValues == {9000 + 500 * k : k \in 0..MaxTicks}

\* Math.floor(Date.now() / 1000)
UnixSeconds(ms) == ms \div 1000

\* The decimal digits of a number, as timestamp.toString() and the template
\* literal of signRequest both write it.
RECURSIVE Decimal(_)
Decimal(n) == IF n < 10 THEN <<n>> ELSE Append(Decimal(n \div 10), n % 10)

NoSignature == [appId |-> "none", data |-> [timestamp |-> <<>>, rest |-> "none"]]

\* signRequest: app_id and the HMAC of `${timestamp}${METHOD}${uri}${body}`;
\* the HMAC is kept as the data it was made of.
SignatureOf(ts) ==
    [appId |-> "app", data |-> [timestamp |-> Decimal(ts), rest |-> "METHOD uri body"]]

\* The clock is read anew for the header.
TimestampAtSend(ts, ms) == Decimal(UnixSeconds(ms))

\* "MR-ACCESS-TIMESTAMP": timestamp.toString()
TimestampHeader(ts, ms) == Decimal(ts)

\* Every fetch reads the clock and signs anew.
HeadersResigned(ts, sig, ms) ==
    [contentType |-> "application/json",
     accessTimestamp |-> Decimal(UnixSeconds(ms)),
     accessSign |-> SignatureOf(UnixSeconds(ms))]

\* The headers object of the call, as a fetch at clock ms sends it.
HeadersOf(ts, sig, ms) ==
    [contentType |-> "application/json",
     accessTimestamp |-> TimestampHeader(ts, ms),
     accessSign |-> sig]

\* A client right after its constructor: retryCount = options.retryCount || 0.
InitReq ==
    /\ retryCount \in 0..MaxRetry
    /\ reqPc = "idle"
    /\ attempt = 0
    /\ history = <<>>
    /\ lastError = NoError
    /\ reqResult = "none"
    /\ reqError = NoError
    /\ clock = 9000
    /\ timestamp = 0
    /\ signature = NoSignature
    /\ sentHeaders = <<>>

\* The request part at rest, for the specifications of the other parts.
ReqOff ==
    /\ retryCount = 0
    /\ reqPc = "idle"
    /\ attempt = 0
    /\ history = <<>>
    /\ lastError = NoError
    /\ reqResult = "none"
    /\ reqError = NoError
    /\ clock = 9000
    /\ timestamp = 0
    /\ signature = NoSignature
    /\ sentHeaders = <<>>

\* attempt++ and the loop test: the next attempt, or the throw after the loop.
NextAttempt(err) ==
    /\ attempt' = attempt + 1
    /\ IF LoopContinues(attempt', retryCount)
          THEN reqPc' = "fetching" /\ reqError' = reqError
          ELSE reqPc' = "thrown" /\ reqError' = ErrorAfterLoop(err)

\* doRequest is called: uri, body string and timestamp are computed and
\* signRequest is awaited.
DoRequest ==
    /\ reqPc = "idle"
    /\ reqPc' = "signing"
    /\ timestamp' = UnixSeconds(clock)
    /\ UNCHANGED <<retryCount, attempt, history, lastError, reqResult, reqError,
                   clock, signature, sentHeaders>>
    /\ UNCHANGED notReqVars

\* signRequest settles: with the signature (the headers are built and the loop
\* is entered), or with the error of the shared-key derivation, which leaves
\* doRequest before any fetch.
SignRequestSettles(ok) ==
    /\ reqPc = "signing"
    /\ IF ok
          THEN IF LoopContinues(0, retryCount)
                  THEN reqPc' = "fetching" /\ reqError' = reqError
                  ELSE reqPc' = "thrown" /\ reqError' = ErrorAfterLoop(lastError)
          ELSE /\ reqPc' = "thrown"
               /\ reqError' = [name |-> "SignError", statusCode |-> 0, code |-> FALSE]
    /\ signature' = IF ok THEN SignatureOf(timestamp) ELSE signature
    /\ UNCHANGED <<retryCount, attempt, history, lastError, reqResult,
                   clock, timestamp, sentHeaders>>
    /\ UNCHANGED notReqVars

\* The fetch of the current attempt ends in o; the rest of the loop body runs.
FetchSettles(o) ==
    /\ reqPc = "fetching"
    /\ history' = Append(history, o)
    /\ sentHeaders' = Append(sentHeaders, HeadersOf(timestamp, signature, clock))
    /\ UNCHANGED <<clock, timestamp, signature>>
    /\ LET err == AttemptError(o)
       IN  IF err = NoError
              THEN /\ reqPc' = "returned"
                   /\ reqResult' = AttemptValue(o)
                   /\ UNCHANGED <<attempt, lastError, reqError>>
              ELSE /\ lastError' = err
                   /\ reqResult' = reqResult
                   /\ IF IsClientError(err)
                         THEN reqPc' = "thrown" /\ reqError' = err /\ attempt' = attempt
                         ELSE IF WaitsBeforeRetry(attempt, retryCount)
                                 THEN /\ reqPc' = "delay"
                                      /\ UNCHANGED <<attempt, reqError>>
                                 ELSE NextAttempt(err)
    /\ UNCHANGED retryCount
    /\ UNCHANGED notReqVars

\* The retry delay (setTimeout of retryDelay) is over.
RetryDelayElapses ==
    /\ reqPc = "delay"
    /\ NextAttempt(lastError)
    /\ UNCHANGED <<retryCount, history, lastError, reqResult,
                   clock, timestamp, signature, sentHeaders>>
    /\ UNCHANGED notReqVars

\* Time passes while the call waits: for the signature, an answer, the delay.
ClockAdvances ==
    /\ reqPc \in {"signing", "fetching", "delay"}
    /\ clock + 500 \in ClockValues
    /\ clock' = clock + 500
    /\ UNCHANGED <<retryCount, reqPc, attempt, history, lastError, reqResult, reqError,
                   timestamp, signature, sentHeaders>>
    /\ UNCHANGED notReqVars

NextReq ==
    \/ ClockAdvances
    \/ DoRequest
    \/ \E ok \in BOOLEAN : SignRequestSettles(ok)
    \/ \E o \in FetchOutcomes : FetchSettles(o)
    \/ RetryDelayElapses


ReqDone == reqPc \in {"returned", "thrown"}

Is5xx(o) == o.kind = "response" /\ o.status >= 500 /\ o.status <= 599

Is4xx(o) == o.kind = "response" /\ o.status >= 400 /\ o.status <= 499

IsTransportFailure(o) == o.kind \in {"network", "timeout"}

\* A 2xx answer (202 apart) with a JSON body.
IsSuccess(o) ==
    o.kind = "response" /\ ResponseOk(o.status) /\ o.status # 202 /\ o.body # "garbage"

\* The first k fetches of the call were answered 5xx.
First5xx(k) == k <= Len(history) /\ \A j \in 1..k : Is5xx(history[j])

\* C2, the state part: at most retryCount + 1 fetches; k <= retryCount answers
\* 5xx followed by a success make the call return that payload after k + 1
\* fetches; a call that has seen only 5xx goes on until fetch retryCount + 1 and
\* throws right after it.
C2_AttemptBudget ==
    /\ Len(history) <= retryCount + 1
    /\ \A k \in 0..retryCount :
          (First5xx(k) /\ Len(history) > k /\ IsSuccess(history[k + 1]))
              => /\ reqPc = "returned"
                 /\ Len(history) = k + 1
                 /\ reqResult = AttemptValue(history[k + 1])
    /\ (Len(history) > 0 /\ First5xx(Len(history)))
          => IF Len(history) = retryCount + 1
                THEN reqPc = "thrown" /\ reqError = ErrorOfResponse(history[Len(history)])
                ELSE reqPc \in {"delay", "fetching"}

\* C2: doRequest with retryCount = N makes at most N + 1 attempts and then
\* terminates; 5xx k times then 2xx returns the payload when k <= N and fails
\* after exactly N + 1 attempts when k > N.
C2_BoundedRetries == [](C2_AttemptBudget) /\ <>ReqDone

\* Three 5xx and then a 2xx, with retryCount = 3: the call returned.
C2_Witness ==
    /\ retryCount = 3
    /\ Len(history) = 4
    /\ First5xx(3)
    /\ IsSuccess(history[4])
    /\ reqPc = "returned"

Retried(k) == k < Len(history) \/ (k = Len(history) /\ reqPc \in {"delay", "fetching"})

\* C4: another attempt is started only after a transport-level failure or a
\* 5xx response.
C4_RetryOnlyTransportOr5xx ==
    \A k \in 1..Len(history) :
        Retried(k) => IsTransportFailure(history[k]) \/ Is5xx(history[k])

\* ------------------------------------------------------------------------
\* Web3Client: the shared key of request signing
\* ------------------------------------------------------------------------

Clients == 1..MaxClients

\* The requests in progress: each belongs to one instance.
Requests == Clients \X (1..MaxRequests)

ClientOf(r) == r[1]

\* Session public keys the Mixin API may hand out for the route bot: two well
\* formed ones, one a byte short, one a byte long.
ServerKeys == {"K1", "K2", "K31", "K33"}

\* base64URLDecode(routeBotPublicKey).length
KeyBytes(k) == IF k = "K31" THEN 31 ELSE IF k = "K33" THEN 33 ELSE 32

\* Buffer.from(keystore.session_private_key, "hex").length over the keystores.
SeedLens == {16, 32, 64}

\* ed25519PrivateKey.slice(0, 32): the bytes of the seed that are hashed.
SeedBytesUsed(len) == IF len > 32 THEN 32 ELSE len

\* x25519.getSharedSecret refuses a u-coordinate that is not 32 bytes long; the
\* scalar it gets is always the 32 bytes cut from the SHA-512 digest.
ExchangeThrows(k) == KeyBytes(k) # 32

\* The shared secret of instance i with the route bot's key k.
SharedSecret(i, k) == [client |-> i, seed |-> SeedBytesUsed(seedLen[i]), pub |-> k]

\* No secret: sharedKeyCache null, the promise not resolved.
NoSecret == [client |-> 0, seed |-> 0, pub |-> "null"]

NoDerivation == [stage |-> "none", key |-> "null", error |-> "none"]

\* What fetchUserSession throws: HTTP status not ok, an error object in the
\* answer, an answer without a session public key, a rejected fetch.
SessionErrors == {"HttpError", "MixinApiError", "InvalidResponse", "TypeError"}

InitKey ==
    /\ variant \in {"client", "correct"}
    /\ cachedRouteBotPublicKey = "null"
    /\ botKey \in ServerKeys
    /\ rotations = 0
    /\ seedLen \in [Clients -> SeedLens]
    /\ optionKey \in [Clients -> {"null", botKey}]
    /\ variant = "client" => optionKey = [i \in Clients |-> "null"]
    /\ sharedKeyPromise = [i \in Clients |-> "null"]
    /\ derivation = [i \in Clients |-> NoDerivation]
    /\ sharedKey = [i \in Clients |-> NoSecret]
    /\ derivations = [i \in Clients |-> 0]
    /\ resolutions = [i \in Clients |-> 0]
    /\ sigPc = [r \in Requests |-> "idle"]
    /\ usedKey = [r \in Requests |-> NoSecret]

\* The key part at rest, for the specifications of the other parts.
KeyOff ==
    /\ variant = "client"
    /\ cachedRouteBotPublicKey = "null"
    /\ botKey = "K1"
    /\ rotations = 0
    /\ seedLen = [i \in Clients |-> 32]
    /\ optionKey = [i \in Clients |-> "null"]
    /\ sharedKeyPromise = [i \in Clients |-> "null"]
    /\ derivation = [i \in Clients |-> NoDerivation]
    /\ sharedKey = [i \in Clients |-> NoSecret]
    /\ derivations = [i \in Clients |-> 0]
    /\ resolutions = [i \in Clients |-> 0]
    /\ sigPc = [r \in Requests |-> "idle"]
    /\ usedKey = [r \in Requests |-> NoSecret]

\* A derivation that failed clears the field for the next request.
PromiseResetOnFailure == "null"

\* The promise in sharedKeyPromise after its body has thrown: nothing assigns
\* the field again.
PromiseAfterFailure == "rejected"

\* mixin-route-client: signRequest calls getSharedKey. Without a promise the
\* promise is created and its body runs up to the first await: fetchUserSession
\* returns the module-level cache or sends POST /sessions/fetch.
SignRequest(r) ==
    /\ variant = "client"
    /\ sigPc[r] = "idle"
    /\ sigPc' = [sigPc EXCEPT ![r] =
                    IF sharedKeyPromise[ClientOf(r)] \in {"resolved", "rejected"}
                        THEN "awaitSettled"
                        ELSE "awaitKey"]
    /\ LET i == ClientOf(r)
       IN  IF sharedKeyPromise[i] = "null"
              THEN /\ sharedKeyPromise' = [sharedKeyPromise EXCEPT ![i] = "pending"]
                   /\ derivations' = [derivations EXCEPT ![i] = @ + 1]
                   /\ IF cachedRouteBotPublicKey # "null"
                         THEN /\ derivation' = [derivation EXCEPT ![i] =
                                   [stage |-> "exchange", key |-> cachedRouteBotPublicKey,
                                    error |-> "none"]]
                              /\ UNCHANGED resolutions
                         ELSE /\ derivation' = [derivation EXCEPT ![i] =
                                   [stage |-> "session", key |-> "null", error |-> "none"]]
                              /\ resolutions' = [resolutions EXCEPT ![i] = @ + 1]
              ELSE UNCHANGED <<sharedKeyPromise, derivations, derivation, resolutions>>
    /\ UNCHANGED <<variant, cachedRouteBotPublicKey, botKey, rotations, seedLen,
                   optionKey, sharedKey, usedKey>>
    /\ UNCHANGED notKeyVars

\* POST /sessions/fetch of instance i settles: the key of the answer is cached
\* at module level and returned, or the error is thrown on.
SessionFetchSettles(i, out) ==
    /\ variant = "client"
    /\ derivation[i].stage = "session"
    /\ IF out = "ok"
          THEN /\ cachedRouteBotPublicKey' = botKey
               /\ derivation' = [derivation EXCEPT ![i] =
                     [stage |-> "exchange", key |-> botKey, error |-> "none"]]
               /\ UNCHANGED sharedKeyPromise
          ELSE /\ derivation' = [derivation EXCEPT ![i] =
                     [stage |-> "failed", key |-> "null", error |-> out]]
               /\ sharedKeyPromise' = [sharedKeyPromise EXCEPT ![i] = PromiseAfterFailure]
               /\ UNCHANGED cachedRouteBotPublicKey
    /\ UNCHANGED <<variant, botKey, rotations, seedLen, optionKey, sharedKey,
                   derivations, resolutions, sigPc, usedKey>>
    /\ UNCHANGED notKeyVars

\* generateSharedKey of instance i: seed cut to 32 bytes, SHA-512, clamp, then
\* the key exchange with the decoded public key.
GenerateSharedKey(i) ==
    /\ variant = "client"
    /\ derivation[i].stage = "exchange"
    /\ IF ExchangeThrows(derivation[i].key)
          THEN /\ derivation' = [derivation EXCEPT ![i].stage = "failed",
                                                   ![i].error = "ExchangeError"]
               /\ sharedKeyPromise' = [sharedKeyPromise EXCEPT ![i] = PromiseAfterFailure]
               /\ UNCHANGED sharedKey
          ELSE /\ derivation' = [derivation EXCEPT ![i].stage = "done"]
               /\ sharedKeyPromise' = [sharedKeyPromise EXCEPT ![i] = "resolved"]
               /\ sharedKey' = [sharedKey EXCEPT ![i] = SharedSecret(i, derivation[i].key)]
    /\ UNCHANGED <<variant, cachedRouteBotPublicKey, botKey, rotations, seedLen,
                   optionKey, derivations, resolutions, sigPc, usedKey>>
    /\ UNCHANGED notKeyVars

\* The await of getSharedKey in signRequest of r is over: the signature is
\* made with the promise's secret, or the promise's error is thrown on.
KeyDelivered(r) ==
    /\ variant = "client"
    /\ sigPc[r] \in {"awaitKey", "awaitSettled"}
    /\ sharedKeyPromise[ClientOf(r)] \in {"resolved", "rejected"}
    /\ IF sharedKeyPromise[ClientOf(r)] = "resolved"
          THEN /\ sigPc' = [sigPc EXCEPT ![r] = "signed"]
               /\ usedKey' = [usedKey EXCEPT ![r] = sharedKey[ClientOf(r)]]
          ELSE /\ sigPc' = [sigPc EXCEPT ![r] = "failed"]
               /\ UNCHANGED usedKey
    /\ UNCHANGED <<variant, cachedRouteBotPublicKey, botKey, rotations, seedLen,
                   optionKey, sharedKeyPromise, derivation, sharedKey, derivations,
                   resolutions>>
    /\ UNCHANGED notKeyVars

\* mixin-route-client-correct: getSharedKey returns sharedKeyCache, or awaits
\* getRouteBotPublicKey (the option, or a lookup over the network) first.
CorrectSignRequest(r) ==
    /\ variant = "correct"
    /\ sigPc[r] = "idle"
    /\ LET i == ClientOf(r)
       IN  IF sharedKey[i] # NoSecret
              THEN /\ sigPc' = [sigPc EXCEPT ![r] = "signed"]
                   /\ usedKey' = [usedKey EXCEPT ![r] = sharedKey[i]]
                   /\ UNCHANGED <<derivations, resolutions>>
              ELSE /\ derivations[i] < MaxDerivations
                   /\ sigPc' = [sigPc EXCEPT ![r] = "resolving"]
                   /\ derivations' = [derivations EXCEPT ![i] = @ + 1]
                   /\ resolutions' = [resolutions EXCEPT ![i] =
                                         @ + (IF optionKey[i] = "null" THEN 1 ELSE 0)]
                   /\ UNCHANGED usedKey
    /\ UNCHANGED <<variant, cachedRouteBotPublicKey, botKey, rotations, seedLen,
                   optionKey, sharedKeyPromise, derivation, sharedKey>>
    /\ UNCHANGED notKeyVars

\* mixin-route-client-correct: the await of getRouteBotPublicKey of r is over.
\* Without the option it has thrown; with it calculateSharedKey runs and its
\* result is stored in sharedKeyCache. The library call that converts the
\* private key decides about a seed that is not 32 bytes long (accepts).
CorrectKeyResolved(r, accepts) ==
    /\ variant = "correct"
    /\ sigPc[r] = "resolving"
    /\ LET i == ClientOf(r)
           thrown == \/ optionKey[i] = "null"
                     \/ ExchangeThrows(optionKey[i])
                     \/ (seedLen[i] # 32 /\ ~accepts)
       IN  IF thrown
              THEN /\ sigPc' = [sigPc EXCEPT ![r] = "failed"]
                   /\ UNCHANGED <<sharedKey, usedKey>>
              ELSE /\ sigPc' = [sigPc EXCEPT ![r] = "signed"]
                   /\ sharedKey' = [sharedKey EXCEPT ![i] = SharedSecret(i, optionKey[i])]
                   /\ usedKey' = [usedKey EXCEPT ![r] = sharedKey'[i]]
    /\ UNCHANGED <<variant, cachedRouteBotPublicKey, botKey, rotations, seedLen,
                   optionKey, sharedKeyPromise, derivation, derivations, resolutions>>
    /\ UNCHANGED notKeyVars

\* The request of slot r is over; the slot is free for the next request.
RequestEnds(r) ==
    /\ sigPc[r] \in {"signed", "failed"}
    /\ sigPc' = [sigPc EXCEPT ![r] = "idle"]
    /\ UNCHANGED <<variant, cachedRouteBotPublicKey, botKey, rotations, seedLen,
                   optionKey, sharedKeyPromise, derivation, sharedKey, derivations,
                   resolutions, usedKey>>
    /\ UNCHANGED notKeyVars

\* The route bot changes its session key.
RotateBotKey(k) ==
    /\ rotations < MaxRotations
    /\ k # botKey
    /\ botKey' = k
    /\ rotations' = rotations + 1
    /\ UNCHANGED <<variant, cachedRouteBotPublicKey, seedLen, optionKey,
                   sharedKeyPromise, derivation, sharedKey, derivations, resolutions,
                   sigPc, usedKey>>
    /\ UNCHANGED notKeyVars

NextKey ==
    \/ \E r \in Requests : SignRequest(r)
    \/ \E i \in Clients, out \in {"ok"} \cup SessionErrors : SessionFetchSettles(i, out)
    \/ \E i \in Clients : GenerateSharedKey(i)
    \/ \E r \in Requests : KeyDelivered(r)
    \/ \E r \in Requests : CorrectSignRequest(r)
    \/ \E r \in Requests, accepts \in BOOLEAN : CorrectKeyResolved(r, accepts)
    \/ \E r \in Requests : RequestEnds(r)
    \/ \E k \in ServerKeys : RotateBotKey(k)

\* ------------------------------------------------------------------------
\* MixinSwapService and useMixinSwap
\* ------------------------------------------------------------------------

\* The payload strings a quote may carry.
Payloads == {"P1", "P2"}

\* The error codes of the route API the service looks at.
InvalidSwap == 10611
InvalidQuoteAmount == 10614
NoAvailableQuote == 10615

\* The code of an error: 0 without an error object in the body, one of the
\* three, or another (10002).
RouteCodes == {0, 10002, InvalidSwap, InvalidQuoteAmount, NoAvailableQuote}

\* extra.range of an error body: absent, or min and max.
NoRange == [min |-> 0, max |-> 0]
Ranges == {NoRange, [min |-> 1, max |-> 9]}

NoFailure == [name |-> "none", code |-> 0, range |-> NoRange, origin |-> "none"]

\* What signRequest throws: the error of fetchUserSession or of the key
\* exchange, plain Error objects without code and range.
SignFailures ==
    {[name |-> n, code |-> 0, range |-> NoRange, origin |-> "sign"] :
        n \in {"SessionError", "ExchangeError"}}

\* What doRequest throws after the request was sent: MixinRouteAPIError with the
\* code and range of the body, or the error of fetch.
HttpFailures ==
    {[name |-> "MixinRouteAPIError", code |-> c, range |-> r, origin |-> "http"] :
        c \in RouteCodes, r \in Ranges}
    \cup {[name |-> "TypeError", code |-> 0, range |-> NoRange, origin |-> "http"]}

NoQuote == [payload |-> "none"]

NoResult == [quote |-> NoQuote, swap |-> "none"]

ServiceOps == {"getSupportedTokens", "getSwapQuote", "createSwap", "executeSwap"}

\* The client method an operation begins with.
FirstCall(op) ==
    CASE op = "getSupportedTokens" -> "tokens"
      [] op = "createSwap" -> "swap"
      [] OTHER -> "quote"

InitSvc ==
    /\ svcOp = "none"
    /\ svcPc = "idle"
    /\ svcCall = "none"
    /\ svcCalls = 0
    /\ svcPayload = "none"
    /\ svcQuote = NoQuote
    /\ httpLog = <<>>
    /\ clientError = NoFailure
    /\ svcResult = NoResult
    /\ svcError = NoFailure
    /\ hookQuote = NoQuote
    /\ hookError = NoFailure

\* The service part at rest, for the specifications of the other parts.
SvcOff == InitSvc

\* The constant payload of every order.
FirstPayload(quote) == "P1"

\* executeSwap: payload: quote.payload
PayloadOfQuote(quote) == quote.payload

\* The catch of getSwapQuote: the three codes are answered with a new Error
\* made of a message only; every other error is thrown on as it is.
GetSwapQuoteCatch(err) ==
    IF err.code \in {InvalidQuoteAmount, NoAvailableQuote, InvalidSwap}
        THEN [name |-> "Error", code |-> 0, range |-> NoRange, origin |-> "service"]
        ELSE err

\* Every catch answers with an error of its own.
WrapEveryError(call, err) ==
    [name |-> "Error", code |-> 0, range |-> NoRange, origin |-> "service"]

\* The catch that is passed on the way out of the operation, by client method.
ServiceCatch(call, err) == IF call = "quote" THEN GetSwapQuoteCatch(err) ELSE err

\* A callback of the hook is invoked (for createSwap with a payload of the
\* caller's): setError(null), then the service operation runs up to the await
\* of signRequest in doRequest.
SvcInvoke(op, p) ==
    /\ svcPc \in {"idle", "returned"}
    /\ svcOp' = op
    /\ svcPc' = "sign"
    /\ svcCall' = FirstCall(op)
    /\ svcCalls' = 1
    /\ svcPayload' = IF op = "createSwap" THEN p ELSE "none"
    /\ svcQuote' = NoQuote
    /\ httpLog' = <<>>
    /\ clientError' = NoFailure
    /\ svcResult' = NoResult
    /\ svcError' = NoFailure
    /\ hookError' = NoFailure
    /\ UNCHANGED hookQuote
    /\ UNCHANGED notSvcVars

\* The client method threw err: the catch blocks of the service run and the
\* operation rejects.
ServiceThrows(err) ==
    /\ clientError' = err
    /\ svcError' = ServiceCatch(svcCall, err)
    /\ svcPc' = "settled"
    /\ UNCHANGED <<svcOp, svcCall, svcCalls, svcPayload, svcQuote, svcResult,
                   hookQuote, hookError>>

\* doRequest: the await of signRequest is over. A signature lets the request
\* go out; an error leaves doRequest at once.
ClientSignSettles(err) ==
    /\ svcPc = "sign"
    /\ IF err = NoFailure
          THEN /\ httpLog' = Append(httpLog, [call |-> svcCall, payload |-> svcPayload])
               /\ svcPc' = "http"
               /\ UNCHANGED <<svcOp, svcCall, svcCalls, svcPayload, svcQuote,
                              clientError, svcResult, svcError, hookQuote, hookError>>
          ELSE /\ ServiceThrows(err)
               /\ UNCHANGED httpLog
    /\ UNCHANGED notSvcVars

\* doRequest throws after its attempts.
ClientRequestFails(err) ==
    /\ svcPc = "http"
    /\ ServiceThrows(err)
    /\ UNCHANGED httpLog
    /\ UNCHANGED notSvcVars

\* doRequest returns the data of the answer; p is the payload of a quote. The
\* operation returns, or executeSwap goes on to createSwap.
ClientRequestReturns(p) ==
    /\ svcPc = "http"
    /\ IF svcOp = "executeSwap" /\ svcCall = "quote"
          THEN /\ svcQuote' = [payload |-> p]
               /\ svcCall' = "swap"
               /\ svcCalls' = svcCalls + 1
               /\ svcPayload' = PayloadOfQuote(svcQuote')
               /\ svcPc' = "sign"
               /\ UNCHANGED svcResult
          ELSE /\ svcQuote' = IF svcCall = "quote" THEN [payload |-> p] ELSE svcQuote
               /\ svcResult' = [quote |-> svcQuote',
                                swap |-> IF svcCall = "swap" THEN "swap" ELSE "none"]
               /\ svcPc' = "settled"
               /\ UNCHANGED <<svcCall, svcCalls, svcPayload>>
    /\ UNCHANGED <<svcOp, httpLog, clientError, svcError, hookQuote, hookError>>
    /\ UNCHANGED notSvcVars

\* The hook's callback resumes after the await of the service operation:
\* getQuote and executeSwap store the quote, getQuote clears it on an error,
\* and every callback throws the error it caught.
HookSettles ==
    /\ svcPc = "settled"
    /\ svcPc' = "returned"
    /\ hookError' = svcError
    /\ hookQuote' =
          IF svcOp \in {"getSwapQuote", "executeSwap"} /\ svcError = NoFailure
              THEN svcResult.quote
              ELSE IF svcOp = "getSwapQuote" THEN NoQuote ELSE hookQuote
    /\ UNCHANGED <<svcOp, svcCall, svcCalls, svcPayload, svcQuote, httpLog,
                   clientError, svcResult, svcError>>
    /\ UNCHANGED notSvcVars

NextSvc ==
    \/ \E op \in ServiceOps, p \in Payloads : SvcInvoke(op, p)
    \/ \E err \in {NoFailure} \cup SignFailures : ClientSignSettles(err)
    \/ \E err \in HttpFailures : ClientRequestFails(err)
    \/ \E p \in Payloads : ClientRequestReturns(p)
    \/ HookSettles

\* ------------------------------------------------------------------------
\* useMixinSwap: the callbacks, any number of them in flight
\* ------------------------------------------------------------------------

HookCalls == 1..MaxHookCalls

HookCallbacks == {"loadTokens", "getQuote", "executeSwap", "createSwap"}

InitHook ==
    /\ loading = FALSE
    /\ errorMsg = "null"
    /\ tokensLoaded = FALSE
    /\ quoteShown = "null"
    /\ inFlight = [c \in HookCalls |-> "none"]

\* The hook at rest, for the specifications of the other parts.
HookOff == InitHook

\* A callback up to its await: setLoading(true); setError(null); the service
\* method is called. loadTokens is also what the effect of the mount calls.
HookCallStarts(c, cb) ==
    /\ inFlight[c] = "none"
    /\ inFlight' = [inFlight EXCEPT ![c] = cb]
    /\ loading' = TRUE
    /\ errorMsg' = "null"
    /\ UNCHANGED <<tokensLoaded, quoteShown, notHookVars>>

\* The awaited service method settles: the try block goes on to set tokens or
\* quote, or the catch block sets error (and getQuote clears quote); finally
\* setLoading(false).
HookCallSettles(c, ok) ==
    /\ inFlight[c] # "none"
    /\ inFlight' = [inFlight EXCEPT ![c] = "none"]
    /\ LET cb == inFlight[c]
       IN  IF ok
              THEN /\ tokensLoaded' = (tokensLoaded \/ cb = "loadTokens")
                   /\ quoteShown' = IF cb \in {"getQuote", "executeSwap"}
                                       THEN cb ELSE quoteShown
                   /\ errorMsg' = errorMsg
              ELSE /\ errorMsg' = cb
                   /\ quoteShown' = IF cb = "getQuote" THEN "null" ELSE quoteShown
                   /\ tokensLoaded' = tokensLoaded
    /\ loading' = FALSE
    /\ UNCHANGED notHookVars

\* clearError
ClearError ==
    /\ errorMsg # "null"
    /\ errorMsg' = "null"
    /\ UNCHANGED <<loading, tokensLoaded, quoteShown, inFlight, notHookVars>>

\* clearQuote
ClearQuote ==
    /\ quoteShown # "null"
    /\ quoteShown' = "null"
    /\ UNCHANGED <<loading, errorMsg, tokensLoaded, inFlight, notHookVars>>

NextHook ==
    \/ \E c \in HookCalls, cb \in HookCallbacks : HookCallStarts(c, cb)
    \/ \E c \in HookCalls, ok \in BOOLEAN : HookCallSettles(c, ok)
    \/ ClearError
    \/ ClearQuote

\* ------------------------------------------------------------------------
\* The clamp of ed25519PrivateToCurve25519
\* ------------------------------------------------------------------------

\* The values of one element of a Uint8Array.
Bytes == 0..255

\* a & b on bytes
RECURSIVE BitAnd(_, _)
BitAnd(a, b) ==
    IF a = 0 \/ b = 0 THEN 0
    ELSE (a % 2) * (b % 2) + 2 * BitAnd(a \div 2, b \div 2)

\* a | b on bytes
RECURSIVE BitOr(_, _)
BitOr(a, b) ==
    IF a = 0 THEN b
    ELSE IF b = 0 THEN a
    ELSE (IF a % 2 = 1 \/ b % 2 = 1 THEN 1 ELSE 0) + 2 * BitOr(a \div 2, b \div 2)

\* Bit i of a byte, bit 0 the lowest.
Bit(b, i) == (b \div (2 ^ i)) % 2

\* A variant that clears the two lowest bits only.
ClearTwoBits(b) == BitAnd(b, 252)

\* curve25519Private[0] &= 248
ClampFirst(b) == BitAnd(b, 248)

\* curve25519Private[31] &= 127; curve25519Private[31] |= 64
ClampLast(b) == BitOr(BitAnd(b, 127), 64)

\* The three assignments on the array; the bytes between are not written to.
Clamp(bytes) == [b0 |-> ClampFirst(bytes.b0), b1 |-> bytes.b1, b31 |-> ClampLast(bytes.b31)]

\* The bytes between the first and the last stand for one: byte 1.
MiddleBytes == {0, 165, 255}

NoBytes == [b0 |-> 0, b1 |-> 0, b31 |-> 0]

\* new Uint8Array(digest.slice(0, 32)): the copy of the digest's first half.
InitClamp ==
    /\ cInput \in [b0 : Bytes, b1 : MiddleBytes, b31 : Bytes]
    /\ cScalar = cInput
    /\ cPc = "copied"

\* The clamp at rest, for the specifications of the other parts.
ClampOff ==
    /\ cInput = NoBytes
    /\ cScalar = NoBytes
    /\ cPc = "copied"

\* The three assignments of ed25519PrivateToCurve25519 on the copy.
ClampScalar ==
    /\ cPc = "copied"
    /\ cScalar' = Clamp(cScalar)
    /\ cPc' = "clamped"
    /\ UNCHANGED <<cInput, notClampVars>>

\* The same assignments on a scalar that has them behind it.
ClampAgain ==
    /\ cPc = "clamped"
    /\ cScalar' = Clamp(cScalar)
    /\ cPc' = "reclamped"
    /\ UNCHANGED <<cInput, notClampVars>>

NextClamp ==
    \/ ClampScalar
    \/ ClampAgain

\* ------------------------------------------------------------------------
\* The derivation of the shared secret, function by function
\* ------------------------------------------------------------------------

\* Values are kept as the terms that compute them: the sequence of the
\* functions applied, outermost first, down to the input.
Apply(f, term) == <<f>> \o term

DerivationPaths == {"client", "v2", "correct"}

SeedNames == {"seedA", "seedB"}

RemoteKeys == {"remoteA", "remoteB"}

\* The hash ed25519PrivateToCurve25519 of mixin-route-client-v2 is written with.
HashOfV2(seed) == Apply("sha256", seed)

\* ed25519PrivateToCurve25519 of mixin-route-client: sha512 of the seed.
HashOfClient(seed) == Apply("sha512", seed)

\* The clamp of the first 32 bytes of the digest.
ClampedHead(digest) == Apply("clamp", Apply("first32", digest))

\* ed25519PrivateToCurve25519 by file; edwardsToMontgomeryPriv of the library
\* is the clamped head of SHA-512 of the first 32 bytes.
ScalarOf(path, seed) ==
    LET seed32 == Apply("first32", <<seed>>)
    IN  IF path = "v2" THEN ClampedHead(HashOfV2(seed32))
        ELSE ClampedHead(HashOfClient(seed32))

\* The conversion of an Ed25519 public key to its Montgomery u-coordinate.
EdwardsToMontgomery(key) == Apply("edwardsToMontgomery", key)

\* The u-coordinate handed to getSharedSecret: the decoded key itself, but for
\* calculateSharedKey with isHex.
PointOf(path, remote, isHex) ==
    IF path = "correct" /\ isHex
        THEN EdwardsToMontgomery(Apply("hexDecode", <<remote>>))
        ELSE Apply("base64URLDecode", <<remote>>)

\* x25519.getSharedSecret(scalar, u)
GetSharedSecret(scalar, point) == <<"x25519">> \o scalar \o <<"with">> \o point

InitDrv ==
    /\ dPath \in DerivationPaths
    /\ dSeed \in SeedNames
    /\ dRemote \in RemoteKeys
    /\ dIsHex \in BOOLEAN
    /\ dPath # "correct" => ~dIsHex
    /\ dPc = "start"
    /\ dScalar = <<>>
    /\ dPoint = <<>>
    /\ dSecret = <<>>

\* The derivation part at rest, for the specifications of the other parts.
DrvOff ==
    /\ dPath = "client"
    /\ dSeed = "seedA"
    /\ dRemote = "remoteA"
    /\ dIsHex = FALSE
    /\ dPc = "start"
    /\ dScalar = <<>>
    /\ dPoint = <<>>
    /\ dSecret = <<>>

\* The private key is decoded and converted.
ConvertPrivateKey ==
    /\ dPc = "start"
    /\ dScalar' = ScalarOf(dPath, dSeed)
    /\ dPc' = "scalar"
    /\ UNCHANGED <<dPath, dSeed, dRemote, dIsHex, dPoint, dSecret>>
    /\ UNCHANGED notDrvVars

\* The remote public key is decoded.
DecodeRemoteKey ==
    /\ dPc = "scalar"
    /\ dPoint' = PointOf(dPath, dRemote, dIsHex)
    /\ dPc' = "point"
    /\ UNCHANGED <<dPath, dSeed, dRemote, dIsHex, dScalar, dSecret>>
    /\ UNCHANGED notDrvVars

\* The key exchange. mixin-route-client-v2 names ed25519.x25519 without
\* importing ed25519: the call throws a ReferenceError.
ExchangeKeys ==
    /\ dPc = "point"
    /\ IF dPath = "v2"
          THEN dPc' = "thrown" /\ UNCHANGED dSecret
          ELSE dPc' = "done" /\ dSecret' = GetSharedSecret(dScalar, dPoint)
    /\ UNCHANGED <<dPath, dSeed, dRemote, dIsHex, dScalar, dPoint>>
    /\ UNCHANGED notDrvVars

\* The same inputs are derived from again, or another keystore and another
\* remote key are taken.
DeriveAgain(seed, remote) ==
    /\ dPc \in {"done", "thrown"}
    /\ dPc' = "start"
    /\ dSeed' = seed
    /\ dRemote' = remote
    /\ dScalar' = <<>>
    /\ dPoint' = <<>>
    /\ UNCHANGED <<dPath, dIsHex, dSecret>>
    /\ UNCHANGED notDrvVars

NextDrv ==
    \/ ConvertPrivateKey
    \/ DecodeRemoteKey
    \/ ExchangeKeys
    \/ \E seed \in SeedNames, remote \in RemoteKeys : DeriveAgain(seed, remote)

\* ------------------------------------------------------------------------
\* Batch creation: the plan
\* ------------------------------------------------------------------------

\* The assets of the wallet; each has a balance worth selecting.
Assets == {"A", "B", "C"}

\* The values typed into a percentage input (whole steps of the input).
Percentages == {40, 60}

InitCreate ==
    /\ component \in {"bulk", "split"}
    /\ selectedAssetIds = <<>>
    /\ outputToken = "none"
    /\ selectedAssetId = "none"
    /\ buyTokens = <<>>
    /\ addPending = [a \in Assets |-> 0]
    /\ items = <<>>
    /\ netCalls = {}
    /\ failureToasts = <<>>

\* The creation part at rest, for the specifications of the other parts.
CreateOff ==
    /\ component = "bulk"
    /\ selectedAssetIds = <<>>
    /\ outputToken = "none"
    /\ selectedAssetId = "none"
    /\ buyTokens = <<>>
    /\ addPending = [a \in Assets |-> 0]
    /\ items = <<>>
    /\ netCalls = {}
    /\ failureToasts = <<>>

\* The payment modal's overlay covers the page.
ModalShown == showPaymentModal /\ Len(swapOrders) > 0

SeqRange(q) == {q[k] : k \in DOMAIN q}

\* buyTokens.reduce((sum, bt) => sum + bt.percentage, 0)
RECURSIVE SumFrom(_, _)
SumFrom(tokens, k) ==
    IF k > Len(tokens) THEN 0 ELSE tokens[k].percentage + SumFrom(tokens, k + 1)

\* swapSummary.totalBuyPercentage: 0 while the sold asset has no balance entry
\* (known is whether it has one).
TotalBuyPercentage(known, tokens) == IF known THEN SumFrom(tokens, 1) ELSE 0

\* A variant that leaves the remainder out.
EqualShares(tokens) ==
    [k \in DOMAIN tokens |-> [tokens[k] EXCEPT !.percentage = 100 \div Len(tokens)]]

\* Math.floor(100 / n) for each, the remainder on top for the first.
AutoDistribute(tokens) ==
    LET n   == Len(tokens)
        eq  == 100 \div n
        rem == 100 - eq * n
    IN  [k \in 1..n |-> [tokens[k] EXCEPT !.percentage = eq + (IF k = 1 THEN rem ELSE 0)]]

CreateFrame ==
    UNCHANGED <<swapOrders, showPaymentModal, isCalculating, isCheckingStatus,
                pollingFlags, pollingInterval, staleChecks, statusResults,
                closeTimers, orderState, ledger, batches, items, netCalls,
                failureToasts, component>>

\* The getAssetInfo calls of handleAddBuyToken that have not settled.
RECURSIVE PendingOver(_)
PendingOver(as) ==
    IF as = {} THEN 0
    ELSE LET a == CHOOSE x \in as : TRUE
         IN  addPending[a] + PendingOver(as \ {a})

LookupsInFlight == PendingOver(Assets)

\* SplitSwap: a row of the asset list is clicked.
SetSelectedAssetId(a) ==
    /\ component = "split" /\ ~ModalShown
    /\ selectedAssetId' = a
    /\ emitted' = {}
    /\ CreateFrame
    /\ UNCHANGED <<selectedAssetIds, outputToken, buyTokens, addPending, clientVars>>

\* SplitSwap.handleAddBuyToken up to its await: the two checks, then the price
\* lookup is sent.
HandleAddBuyToken(a) ==
    /\ component = "split" /\ ~ModalShown
    /\ ~(\E k \in DOMAIN buyTokens : buyTokens[k].assetId = a)
    /\ selectedAssetId # a
    /\ LookupsInFlight < MaxLookups
    /\ addPending' = [addPending EXCEPT ![a] = @ + 1]
    /\ emitted' = {}
    /\ CreateFrame
    /\ UNCHANGED <<selectedAssetIds, outputToken, selectedAssetId, buyTokens, clientVars>>

\* The price lookup settles: the token is appended and the shares are
\* distributed evenly, or the failure is toasted.
AddBuyTokenSettles(a, ok) ==
    /\ addPending[a] > 0
    /\ addPending' = [addPending EXCEPT ![a] = @ - 1]
    /\ IF ok
          THEN /\ Len(buyTokens) < MaxTargets
               /\ buyTokens' = AutoDistribute(
                                 Append(buyTokens, [assetId |-> a, percentage |-> 0]))
               /\ emitted' = {<<"tokenAdded", 0>>}
          ELSE /\ buyTokens' = buyTokens
               /\ emitted' = {<<"priceFailed", 0>>}
    /\ CreateFrame
    /\ UNCHANGED <<selectedAssetIds, outputToken, selectedAssetId, clientVars>>

\* SplitSwap.handleRemoveBuyToken
HandleRemoveBuyToken(a) ==
    /\ component = "split" /\ ~ModalShown
    /\ \E k \in DOMAIN buyTokens : buyTokens[k].assetId = a
    /\ LET keep(bt) == bt.assetId # a
           filtered == SelectSeq(buyTokens, keep)
       IN  buyTokens' = IF Len(filtered) = 0 THEN <<>> ELSE AutoDistribute(filtered)
    /\ emitted' = {}
    /\ CreateFrame
    /\ UNCHANGED <<selectedAssetIds, outputToken, selectedAssetId, addPending, clientVars>>

\* SplitSwap.handleUpdatePercentage, with the input's value clamped to 0..100.
HandleUpdatePercentage(a, pct) ==
    /\ component = "split" /\ ~ModalShown
    /\ \E k \in DOMAIN buyTokens : buyTokens[k].assetId = a
    /\ buyTokens' = [k \in DOMAIN buyTokens |->
                        IF buyTokens[k].assetId = a
                            THEN [buyTokens[k] EXCEPT !.percentage = pct]
                            ELSE buyTokens[k]]
    /\ emitted' = {}
    /\ CreateFrame
    /\ UNCHANGED <<selectedAssetIds, outputToken, selectedAssetId, addPending, clientVars>>

\* SplitSwap.handleAutoDistribute
HandleAutoDistribute ==
    /\ component = "split" /\ ~ModalShown
    /\ Len(buyTokens) > 0
    /\ buyTokens' = AutoDistribute(buyTokens)
    /\ emitted' = {}
    /\ CreateFrame
    /\ UNCHANGED <<selectedAssetIds, outputToken, selectedAssetId, addPending, clientVars>>

\* BulkSwap.handleToggleAsset: refused for the output token.
HandleToggleAsset(a) ==
    /\ component = "bulk" /\ ~ModalShown
    /\ outputToken # a
    /\ LET keep(x) == x # a
       IN  IF a \in SeqRange(selectedAssetIds)
              THEN selectedAssetIds' = SelectSeq(selectedAssetIds, keep)
              ELSE /\ Len(selectedAssetIds) < MaxOrders
                   /\ selectedAssetIds' = Append(selectedAssetIds, a)
    /\ emitted' = {}
    /\ CreateFrame
    /\ UNCHANGED <<outputToken, selectedAssetId, buyTokens, addPending, clientVars>>

\* BulkSwap: the output token is set (the default after the token list loads,
\* or the token selector); the effect on outputToken.assetId deselects it.
SetOutputToken(a) ==
    /\ component = "bulk" /\ ~ModalShown
    /\ outputToken # a
    /\ outputToken' = a
    /\ LET keep(x) == x # a
       IN  IF a \in SeqRange(selectedAssetIds)
              THEN /\ selectedAssetIds' = SelectSeq(selectedAssetIds, keep)
                   /\ emitted' = {<<"deselected", 0>>}
              ELSE /\ selectedAssetIds' = selectedAssetIds
                   /\ emitted' = {}
    /\ CreateFrame
    /\ UNCHANGED <<selectedAssetId, buyTokens, addPending, clientVars>>

\* ------------------------------------------------------------------------
\* Batch creation: one run of handleCalculateSwap
\* ------------------------------------------------------------------------

\* An item is one element of swapPromises, with the share of the sold amount
\* it was started with (all of it in BulkSwap) and whether the inputAssetId and
\* the outputAssetId it passes to executeSwap are equal. st is where its task
\* stands:
\* "skipped" (no balance entry: null without a call), "quote" (getSwapQuote in
\* flight), "swap" (createSwap in flight), "ok" (resolved to an order),
\* "failed" (executeSwap or decodeSwapTx threw: toast, null).
ItemPending(it) == it.st \in {"quote", "swap"}

\* A variant that waits for the first task only (Promise.race).
SettlesOnFirst(its) == \A k \in DOMAIN its : ItemPending(its[k])

\* Promise.all(swapPromises) is pending while one of the tasks is.
RunContinues(its) == \E k \in DOMAIN its : ItemPending(its[k])

\* The order id the service gives to the order of item k of the current run.
ItemOrderId(k) == batches * MaxOrders + k

\* results.filter(order => order !== null)
RECURSIVE ValidOrdersFrom(_, _)
ValidOrdersFrom(its, k) ==
    IF k > Len(its) THEN <<>>
    ELSE (IF its[k].st = "ok"
             THEN <<[orderId |-> ItemOrderId(k), traceId |-> ItemOrderId(k),
                     isPaid |-> FALSE]>>
             ELSE <<>>) \o ValidOrdersFrom(its, k + 1)

\* A variant that drops the whole batch when one creation failed.
AllOrNothing(its) ==
    IF \E k \in DOMAIN its : its[k].st = "failed" THEN <<>> ELSE ValidOrdersFrom(its, 1)

ValidOrders(its) == ValidOrdersFrom(its, 1)

\* A variant of the test that rejects only a total below 100.
RejectedBelowHundred(known, tokens) == TotalBuyPercentage(known, tokens) < 100

\* swapSummary.totalBuyPercentage !== 100
PercentagesRejected(known, tokens) == TotalBuyPercentage(known, tokens) # 100

\* setIsCalculating(true); setSwapOrders([]); then one task per element.
StartRun(its) ==
    /\ batches < MaxBatches
    /\ isCalculating' = TRUE
    /\ swapOrders' = <<>>
    /\ items' = its
    /\ netCalls' = {<<"quote", k>> : k \in {j \in DOMAIN its : its[j].st = "quote"}}
    /\ failureToasts' = [k \in DOMAIN its |-> 0]
    /\ PollingEffect(<<>>, showPaymentModal, pollingFlags, staleChecks)
    /\ AutoCloseEffect(<<>>, {})
    /\ UNCHANGED <<showPaymentModal, isCheckingStatus, statusResults, orderState,
                   ledger, batches, component, selectedAssetIds, outputToken,
                   selectedAssetId, buyTokens, addPending, clientVars>>

\* BulkSwap.handleCalculateSwap up to Promise.all. The button is disabled
\* while isCalculating or without an output token and sits under the modal's
\* overlay; an asset whose balance entry is gone by now is skipped.
BulkHandleCalculateSwap(known) ==
    /\ component = "bulk" /\ ~ModalShown
    /\ ~isCalculating
    /\ outputToken # "none"
    /\ Len(selectedAssetIds) > 0
    /\ known \subseteq DOMAIN selectedAssetIds
    /\ StartRun([k \in DOMAIN selectedAssetIds |->
                   [percentage |-> 100,
                    sameAsset  |-> (selectedAssetIds[k] = outputToken),
                    st         |-> IF k \in known THEN "quote" ELSE "skipped"]])

\* The handler is taken as callable whenever its own guards allow it, also
\* where its button is not rendered (the preview card shows only at 100%).
\* SplitSwap.handleCalculateSwap up to Promise.all: silent return, rejection
\* of the percentages, or the tasks (the balance entry is there whenever the
\* total of the same render is 100).
SplitHandleCalculateSwap(known) ==
    /\ component = "split" /\ ~ModalShown
    /\ ~isCalculating
    /\ IF selectedAssetId = "none" \/ Len(buyTokens) = 0
          THEN /\ emitted' = {}
               /\ UNCHANGED <<swapOrders, showPaymentModal, isCalculating,
                              isCheckingStatus, pollingFlags, pollingInterval,
                              staleChecks, statusResults, closeTimers, orderState,
                              ledger, batches, clientVars, createVars>>
          ELSE IF PercentagesRejected(known, buyTokens)
          THEN /\ emitted' = {<<"percentError", 0>>}
               /\ UNCHANGED <<swapOrders, showPaymentModal, isCalculating,
                              isCheckingStatus, pollingFlags, pollingInterval,
                              staleChecks, statusResults, closeTimers, orderState,
                              ledger, batches, clientVars, createVars>>
          ELSE StartRun([k \in DOMAIN buyTokens |->
                           [percentage |-> buyTokens[k].percentage,
                            sameAsset  |-> (selectedAssetId = buyTokens[k].assetId),
                            st         |-> "quote"]])

RunFrame ==
    UNCHANGED <<swapOrders, showPaymentModal, isCalculating, isCheckingStatus,
                pollingFlags, pollingInterval, staleChecks, statusResults,
                closeTimers, ledger, batches, component, selectedAssetIds,
                outputToken, selectedAssetId, buyTokens, addPending, clientVars>>

\* The task of item k fails: its catch toasts and returns null.
ItemFails(k) ==
    /\ items' = [items EXCEPT ![k].st = "failed"]
    /\ failureToasts' = [failureToasts EXCEPT ![k] = @ + 1]
    /\ emitted' = {<<"createFailed", k>>}

\* executeSwap: getSwapQuote of item k settles; createSwap follows a quote.
QuoteSettles(k, ok) ==
    /\ isCalculating
    /\ k \in DOMAIN items /\ items[k].st = "quote"
    /\ IF ok
          THEN /\ items' = [items EXCEPT ![k].st = "swap"]
               /\ netCalls' = netCalls \cup {<<"swap", k>>}
               /\ emitted' = {}
               /\ UNCHANGED failureToasts
          ELSE /\ ItemFails(k)
               /\ UNCHANGED netCalls
    /\ UNCHANGED orderState
    /\ RunFrame

\* executeSwap: createSwap of item k settles; "badtx" is an answer whose tx
\* decodeSwapTx throws on.
CreateSwapSettles(k, outcome) ==
    /\ isCalculating
    /\ k \in DOMAIN items /\ items[k].st = "swap"
    /\ orderState' = IF outcome = "error" THEN orderState
                     ELSE [orderState EXCEPT ![ItemOrderId(k)] = "created"]
    /\ IF outcome = "ok"
          THEN /\ items' = [items EXCEPT ![k].st = "ok"]
               /\ emitted' = {}
               /\ UNCHANGED failureToasts
          ELSE ItemFails(k)
    /\ UNCHANGED netCalls
    /\ RunFrame

\* Promise.all resolves: the valid orders are published, or the toast for
\* none; finally setIsCalculating(false).
PromiseAllSettles ==
    /\ isCalculating
    /\ ~RunContinues(items)
    /\ isCalculating' = FALSE
    /\ batches' = batches + 1
    /\ LET validOrders == ValidOrders(items)
       IN  IF Len(validOrders) > 0
              THEN /\ swapOrders' = validOrders
                   /\ showPaymentModal' = TRUE
                   /\ PollingEffect(validOrders, TRUE, pollingFlags, staleChecks)
                   /\ AutoCloseEffect(validOrders, {})
              ELSE /\ emitted' = {<<"allCreationsFailed", 0>>}
                   /\ UNCHANGED <<swapOrders, showPaymentModal, pollingFlags,
                                  pollingInterval, staleChecks, closeTimers>>
    /\ UNCHANGED <<isCheckingStatus, statusResults, orderState, ledger, clientVars,
                   createVars>>

\* The plan editor of SplitSwap on its own.
NextPlan ==
    \/ \E a \in Assets : SetSelectedAssetId(a)
    \/ \E a \in Assets : HandleAddBuyToken(a)
    \/ \E a \in Assets, ok \in BOOLEAN : AddBuyTokenSettles(a, ok)
    \/ \E a \in Assets : HandleRemoveBuyToken(a)
    \/ \E a \in Assets, pct \in Percentages : HandleUpdatePercentage(a, pct)
    \/ HandleAutoDistribute

\* Where the runs are followed the plan has at most MaxOrders targets, one
\* order each, and MaxRunLookups lookups are in flight at once.
WithinRunBounds ==
    /\ Len(buyTokens') <= MaxOrders
    /\ PendingOver(Assets)' <= MaxRunLookups

NextCreate ==
    \/ \E a \in Assets : SetSelectedAssetId(a)
    \/ \E a \in Assets : HandleAddBuyToken(a) /\ WithinRunBounds
    \/ \E a \in Assets, ok \in BOOLEAN : AddBuyTokenSettles(a, ok) /\ WithinRunBounds
    \/ \E a \in Assets : HandleRemoveBuyToken(a)
    \/ \E a \in Assets, pct \in Percentages : HandleUpdatePercentage(a, pct)
    \/ HandleAutoDistribute
    \/ \E a \in Assets : HandleToggleAsset(a)
    \/ \E a \in Assets : SetOutputToken(a)
    \/ \E known \in SUBSET (1..MaxOrders) : BulkHandleCalculateSwap(known)
    \/ \E known \in BOOLEAN : SplitHandleCalculateSwap(known)
    \/ \E k \in 1..MaxOrders, ok \in BOOLEAN : QuoteSettles(k, ok)
    \/ \E k \in 1..MaxOrders, outcome \in {"ok", "error", "badtx"} :
           CreateSwapSettles(k, outcome)
    \/ PromiseAllSettles
    \/ CloseModal

\* ------------------------------------------------------------------------
\* Specifications
\* ------------------------------------------------------------------------

\* One doRequest call. The event loop runs whatever is pending: the timeout
\* bounds every fetch and the retry delay is a timer.
InitSpecReq == InitTrack /\ InitReq /\ CreateOff /\ KeyOff /\ SvcOff /\ DrvOff /\ HookOff
        /\ ClampOff

SpecReq == InitSpecReq /\ [][NextReq]_vars /\ WF_vars(NextReq)

\* The payment tracking of one mounted component.
InitSpecTrack == InitTrack /\ ReqOff /\ CreateOff /\ KeyOff /\ SvcOff /\ DrvOff /\ HookOff
        /\ ClampOff

SpecTrack == InitSpecTrack /\ [][NextTrack]_vars

\* The plan and the creation runs of one mounted component.
InitSpecCreate == InitTrack /\ ReqOff /\ InitCreate /\ KeyOff /\ SvcOff /\ DrvOff /\ HookOff
        /\ ClampOff

SpecCreate == InitSpecCreate /\ [][NextCreate]_vars

\* The signing keys of the Web3Client instances of one process.
InitSpecKey == InitTrack /\ ReqOff /\ CreateOff /\ InitKey /\ SvcOff /\ DrvOff /\ HookOff
        /\ ClampOff

SpecKey == InitSpecKey /\ [][NextKey]_vars

\* The operations of MixinSwapService as useMixinSwap invokes them.
InitSpecSvc == InitTrack /\ ReqOff /\ CreateOff /\ KeyOff /\ InitSvc /\ DrvOff /\ HookOff
        /\ ClampOff

SpecSvc == InitSpecSvc /\ [][NextSvc]_vars

\* The derivations of the three client files over seeds and remote keys.
InitSpecDrv == InitTrack /\ ReqOff /\ CreateOff /\ KeyOff /\ SvcOff /\ InitDrv /\ HookOff
        /\ ClampOff

SpecDrv == InitSpecDrv /\ [][NextDrv]_vars

\* The plan editor of SplitSwap: targets are added, removed and reweighted.
InitSpecPlan ==
    InitTrack /\ ReqOff /\ InitCreate /\ component = "split" /\ KeyOff /\ SvcOff /\ DrvOff /\ HookOff
        /\ ClampOff

SpecPlan == InitSpecPlan /\ [][NextPlan]_vars

\* The callbacks of one useMixinSwap, any number of them in flight.
InitSpecHook == InitTrack /\ ReqOff /\ CreateOff /\ KeyOff /\ SvcOff /\ DrvOff /\ InitHook
        /\ ClampOff

SpecHook == InitSpecHook /\ [][NextHook]_vars

\* The clamp over every value of the bytes it touches.
InitSpecClamp == InitTrack /\ ReqOff /\ CreateOff /\ KeyOff /\ SvcOff /\ DrvOff /\ HookOff
        /\ InitClamp

SpecClamp == InitSpecClamp /\ [][NextClamp]_vars

\* ------------------------------------------------------------------------
\* Properties of batch creation
\* ------------------------------------------------------------------------

\* The latest run is over: its items are all settled and its result is out.
RunOver == Len(items) > 0 /\ ~isCalculating

\* The order ids of the items whose creation succeeded.
CreatedIds == {(batches - 1) * MaxOrders + k : k \in {j \in DOMAIN items : items[j].st = "ok"}}

TrackedIds == {swapOrders[k].orderId : k \in DOMAIN swapOrders}

\* C9: in bulk and split creation the failure of one order's creation neither
\* prevents nor cancels the creation of another: every item with a balance has
\* its quote requested and every quoted item its order requested, whatever
\* became of the other items; when the run is over every item is settled, the
\* tracked list holds exactly the orders whose creation succeeded, once each,
\* and every failed creation has had exactly one toast of its own.
C9_FailuresAreIsolated ==
    /\ \A k \in DOMAIN items :
          /\ items[k].st # "skipped" => <<"quote", k>> \in netCalls
          /\ items[k].st \in {"swap", "ok"} => <<"swap", k>> \in netCalls
          /\ failureToasts[k] = (IF items[k].st = "failed" THEN 1 ELSE 0)
    /\ RunOver =>
          /\ \A k \in DOMAIN items : items[k].st \in {"ok", "failed", "skipped"}
          /\ TrackedIds = CreatedIds
          /\ Len(swapOrders) = Cardinality(CreatedIds)

\* A run is over in which one creation failed and another succeeded.
C9_Witness ==
    /\ RunOver
    /\ \E j, k \in DOMAIN items : items[j].st = "failed" /\ items[k].st = "ok"
    /\ Len(swapOrders) = 1

\* The sum of the percentages of a plan, taken from its last entry down.
RECURSIVE PlanTotal(_)
PlanTotal(plan) ==
    IF Len(plan) = 0 THEN 0
    ELSE plan[Len(plan)].percentage + PlanTotal(SubSeq(plan, 1, Len(plan) - 1))

\* The step in which handleCalculateSwap of SplitSwap rejects the plan.
SplitRejects == component = "split" /\ <<"percentError", 0>> \in emitted'

\* C10: SplitSwap.handleCalculateSwap issues no network call unless the
\* target percentages sum to exactly 100: the calls of a run of SplitSwap
\* belong to a plan whose percentages summed to 100 when the run began, and a
\* run begins or a call is issued only from such a plan; a step that rejects
\* the plan leaves the order list, the modal flag, the calculating flag and
\* the calls unchanged.
C10_NoCallUnlessHundred ==
    /\ []((component = "split" /\ (netCalls # {} \/ isCalculating))
              => PlanTotal(items) = 100)
    /\ [][(component = "split" /\ ~isCalculating
                /\ (isCalculating' \/ netCalls' # netCalls))
              => PlanTotal(buyTokens) = 100]_vars
    /\ [][SplitRejects
              => UNCHANGED <<swapOrders, showPaymentModal, isCalculating,
                             items, netCalls>>]_vars

\* A plan of two targets over 100 in total has just been rejected while the
\* orders of an earlier batch are still listed.
C10_Witness ==
    /\ component = "split"
    /\ emitted = {<<"percentError", 0>>}
    /\ Len(buyTokens) = 2 /\ PlanTotal(buyTokens) > 100
    /\ Len(swapOrders) > 0 /\ ~showPaymentModal
    /\ ~isCalculating

\* C11: no order is ever requested whose input asset equals its output asset:
\* every item of a run of handleCalculateSwap, bulk or split, for which the
\* quote or the order has been requested has an inputAssetId that differs from
\* its outputAssetId, whatever edits of the plan came before the run.
C11_NoSameAssetOrder ==
    \A k \in DOMAIN items :
        (<<"quote", k>> \in netCalls \/ <<"swap", k>> \in netCalls)
            => ~items[k].sameAsset

\* The items of the run whose task resolved to an order.
OkItems == {k \in DOMAIN items : items[k].st = "ok"}

\* A step that publishes a list of orders.
Publishes == swapOrders' # swapOrders /\ swapOrders' # <<>>

\* C26: the list of orders that a run of handleCalculateSwap produces depends
\* only on which creations succeeded, not on the order in which the calls
\* completed: it holds the orders of the items that resolved to an order, each
\* once, in the order of the items; and it is published only when every task
\* of the run has settled, the list staying empty for as long as the run lasts.
C26_ListFollowsItems ==
    /\ [](isCalculating => swapOrders = <<>>)
    /\ [][Publishes => \A k \in DOMAIN items :
                            items[k].st \in {"ok", "failed", "skipped"}]_vars
    /\ [][Publishes => Len(swapOrders') = Cardinality(OkItems)]_vars
    /\ [][Publishes => \A k \in OkItems :
                            swapOrders'[Cardinality({j \in OkItems : j <= k})].orderId
                                = ItemOrderId(k)]_vars

\* Both creations of a run of two succeeded and their orders are listed, the
\* order of the first item first.
C26_Witness ==
    /\ RunOver
    /\ Len(items) = 2 /\ \A k \in DOMAIN items : items[k].st = "ok"
    /\ Len(swapOrders) = 2
    /\ swapOrders[1].orderId < swapOrders[2].orderId

\* C27: the target list of the split plan never holds the same target asset
\* twice, also when two handleAddBuyToken calls for one token overlap while
\* their price lookups are in flight.
C27_NoDuplicateTarget ==
    \A j, k \in DOMAIN buyTokens :
        buyTokens[j].assetId = buyTokens[k].assetId => j = k

\* A step of one of the three handlers that distribute the shares evenly.
Redistributes ==
    \/ \E a \in Assets : AddBuyTokenSettles(a, TRUE)
    \/ \E a \in Assets : HandleRemoveBuyToken(a)
    \/ HandleAutoDistribute

\* Every share is floor(100 / N), the first with the remainder on top.
EvenShares(plan) ==
    LET n == Len(plan)
    IN  \A k \in 1..n :
            plan[k].percentage
                = (100 \div n) + (IF k = 1 THEN 100 - n * (100 \div n) ELSE 0)

C13_FailedCheckIsRetried ==
    [][ /\ \A id \in OrderIds :
              (\E out \in {"404", "error"} : LedgerResponse(id, out))
                  => /\ swapOrders' = swapOrders
                     /\ id \in UnpaidTraces(swapOrders')
                     /\ id \notin pollingFlags'
                     /\ pollingInterval'
        /\ IntervalTick => (pollingInterval' /\ UnpaidTraces(swapOrders) \subseteq pollingFlags')
      ]_vars

\* An order that is not paid, whose trace is not on the ledger yet and whose
\* check has settled (with 404 or an error), while the interval is still set.
C13_Witness ==
    /\ pollingInterval
    /\ \E id \in UnpaidTraces(swapOrders) : id \notin pollingFlags /\ ledger[id] = "absent"

\* ------------------------------------------------------------------------
\* Properties of the answers of doRequest
\* ------------------------------------------------------------------------

Is202(o) == o.kind = "response" /\ o.status = 202

\* C17: a response with status 202 is never a success of the call: a call
\* that was answered 202 ends by throwing the MixinRouteAPIError made of that
\* response, with its status and, when the body holds an error object, the
\* code, description and range of it.
C17_AcceptedIsAnError ==
    \A k \in 1..Len(history) :
        (Is202(history[k]) /\ ReqDone)
            => /\ reqPc = "thrown"
               /\ reqError = ErrorOfResponse(history[k])

\* C19: every fetch of doRequest carries both headers, and the value of
\* MR-ACCESS-TIMESTAMP is the timestamp (unix seconds) that stands in the
\* string signed for the MR-ACCESS-SIGN of that fetch.
C19_HeaderTimestampIsSigned ==
    /\ Len(sentHeaders) = Len(history)
    /\ \A k \in DOMAIN sentHeaders :
          /\ sentHeaders[k].accessSign # NoSignature
          /\ sentHeaders[k].accessTimestamp # <<>>
          /\ sentHeaders[k].accessTimestamp = sentHeaders[k].accessSign.data.timestamp
          /\ sentHeaders[k].accessTimestamp = Decimal(timestamp)

\* A second fetch of a call was sent in a later second than the one the call
\* was signed in.
C19_Witness ==
    /\ Len(sentHeaders) >= 2
    /\ UnixSeconds(clock) > timestamp
    /\ sentHeaders[2].accessTimestamp = <<9>>

\* C22: all fetches of one doRequest call carry the same MR-ACCESS-TIMESTAMP
\* and MR-ACCESS-SIGN: timestamp and signature are computed once before the
\* first fetch and are not computed again for a retry, however much time the
\* retry delays have taken.
C22_HeadersComputedOnce ==
    /\ [](\A j, k \in DOMAIN sentHeaders : sentHeaders[j] = sentHeaders[k])
    /\ [][ /\ reqPc \in {"fetching", "delay"} => timestamp' = timestamp
          /\ reqPc \in {"fetching", "delay"} => signature' = signature ]_vars

\* Four fetches of one call, the last one two seconds-steps of the clock after
\* the call was signed.
C22_Witness ==
    /\ Len(sentHeaders) = 4
    /\ reqPc = "thrown"
    /\ UnixSeconds(clock) > timestamp
    /\ sentHeaders[4].accessSign = SignatureOf(9)

\* ------------------------------------------------------------------------
\* Properties of the service operations
\* ------------------------------------------------------------------------

\* The requests of the operation to /web3/swap.
SwapRequests == {k \in DOMAIN httpLog : httpLog[k].call = "swap"}

\* C14: executeSwap requests the quote before it creates the order, sends the
\* order-creation request with exactly the payload string the quote returned,
\* sends no order-creation request when the quote request failed, and
\* delivers no {quote, swap} result when the order creation failed.
C14_QuoteThenSwap ==
    svcOp = "executeSwap" =>
        /\ \A k \in SwapRequests :
              /\ k > 1 /\ httpLog[k - 1].call = "quote"
              /\ svcQuote # NoQuote
              /\ httpLog[k].payload = svcQuote.payload
        /\ (svcError # NoFailure /\ svcQuote = NoQuote) => SwapRequests = {}
        /\ svcError # NoFailure => (svcResult = NoResult)
        /\ svcResult # NoResult =>
              (svcResult.quote = svcQuote /\ svcResult.swap = "swap" /\ SwapRequests # {})

\* executeSwap has returned a quote with payload P2 and the order made of it.
C14_Witness ==
    /\ svcOp = "executeSwap"
    /\ svcPc = "returned"
    /\ svcResult = [quote |-> [payload |-> "P2"], swap |-> "swap"]
    /\ httpLog = <<[call |-> "quote", payload |-> "none"], [call |-> "swap", payload |-> "P2"]>>

C16_SignFailureUnchanged ==
    clientError \in SignFailures =>
        /\ svcError = clientError
        /\ svcResult = NoResult
        /\ Len(httpLog) = svcCalls - 1
        /\ svcPc = "returned" => hookError = clientError

\* executeSwap got its quote, then the signing of the order request failed
\* and the caller has the error.
C16_Witness ==
    /\ svcOp = "executeSwap"
    /\ svcPc = "returned"
    /\ svcCalls = 2
    /\ clientError \in SignFailures
    /\ hookError = clientError

\* Every step that turns an order of the list from unpaid to paid emits the
\* order's payment-success toast.
PaidComesWithToast ==
    [][\A id \in OrderIds :
          (id \in UnpaidTraces(swapOrders) /\ IsPaid(swapOrders', id))
              => <<"paid", id>> \in emitted']_vars

\* C24: for each order the unpaid-to-paid transition is applied and the
\* payment-success notification emitted at most once, also when the polling
\* effect restarts while a check of the order is in flight: a ledger check
\* that finds the trace spent, and so marks and notifies, never meets an order
\* that is marked paid (and was notified) already.
C24_PaidOnce ==
    [][\A id \in OrderIds :
          (LedgerResponse(id, "spent") \/ StaleLedgerResponse(id, "spent"))
              => ~IsPaid(swapOrders, id)]_vars

\* C25: the 3 s auto-close timer acts only on the batch whose completion
\* started it: at most one such timer is pending per completed batch (so no
\* timer is left over to close a later batch). The batches of the model are
\* MaxBatches, so at most MaxBatches timers are ever pending.
C25_OneTimerPerBatch == closeTimers <= MaxBatches

\* ------------------------------------------------------------------------
\* Properties of the hook
\* ------------------------------------------------------------------------

\* C29: in useMixinSwap loading is true whenever at least one of loadTokens,
\* getQuote, executeSwap or createSwap is in flight, for any overlap of calls;
\* it is false only when all of them have settled.
C29_LoadingWhileInFlight ==
    (\E c \in HookCalls : inFlight[c] # "none") => loading

\* ------------------------------------------------------------------------
\* Properties of the signing keys
\* ------------------------------------------------------------------------

\* C12: for one Web3Client instance the shared-secret derivation (public-key
\* resolution plus key exchange) is begun at most once, whatever the sequence
\* and interleaving of its requests; every signature of the instance is made
\* with the same secret, and a secret once held is never replaced or dropped.
C12_DerivedOnce ==
    /\ [](\A i \in Clients : derivations[i] <= 1)
    /\ [](\A r1, r2 \in Requests :
            (ClientOf(r1) = ClientOf(r2) /\ usedKey[r1] # NoSecret /\ usedKey[r2] # NoSecret)
                => usedKey[r1] = usedKey[r2])
    /\ [][\A i \in Clients : sharedKey[i] # NoSecret => sharedKey'[i] = sharedKey[i]]_vars

\* C18: the key material of signing is owned by the instance: an instance that
\* derives its secret from a resolved public key has resolved that key itself,
\* whatever the other instances have done before.
C18_KeysAreInstanceOwned ==
    \A i \in Clients :
        (derivations[i] >= 1 /\ optionKey[i] = "null") => resolutions[i] >= 1

\* C20: the derivation of the shared secret fails with an invalid-key-material
\* error, before any key exchange is computed, whenever the local seed or the
\* remote public key is not exactly 32 bytes long: no secret is ever made of
\* such an input, and no such input gets as far as failing in the exchange.
C20_KeyLengthsAreChecked ==
    \A i \in Clients :
        /\ sharedKey[i] # NoSecret
              => (seedLen[i] = 32 /\ KeyBytes(sharedKey[i].pub) = 32)
        /\ derivation[i].error # "ExchangeError"

\* ------------------------------------------------------------------------
\* Properties of the derivation
\* ------------------------------------------------------------------------

\* C21: in every derivation path the private scalar is the clamped first 32
\* bytes of SHA-512 of the Ed25519 seed, and the remote Ed25519 public key is
\* converted to its Montgomery u-coordinate before the scalar multiplication.
C21_ScalarAndPoint ==
    /\ dScalar # <<>> =>
          dScalar = <<"clamp", "first32", "sha512", "first32", dSeed>>
    /\ dPoint # <<>> => dPoint[1] = "edwardsToMontgomery"

\* C23: when the first derivation of an instance of mixin-route-client has
\* failed, the failure stays for the life of the instance: the promise stays
\* rejected with the same error, no request of the instance starts another
\* derivation or another key resolution, and none gets a signature, so none
\* is sent.
C23_FailureIsCached ==
    /\ [](variant = "client" =>
            \A i \in Clients :
                derivation[i].stage = "failed"
                    => /\ sharedKeyPromise[i] = "rejected"
                       /\ derivations[i] = 1
                       /\ sharedKey[i] = NoSecret
                       /\ \A r \in Requests :
                             ClientOf(r) = i => (sigPc[r] # "signed" /\ usedKey[r] = NoSecret))
    /\ [][ \A i \in Clients :
              (variant = "client" /\ derivation[i].stage = "failed")
                  => /\ derivation'[i] = derivation[i]
                     /\ resolutions'[i] = resolutions[i] ]_vars

\* A request that began after the derivation of its instance had failed in
\* the key resolution, while another request of the instance has failed.
C23_Witness ==
    /\ variant = "client"
    /\ derivation[1].stage = "failed"
    /\ derivation[1].error = "HttpError"
    /\ sigPc[<<1, 1>>] = "failed"
    /\ sigPc[<<1, 2>>] = "awaitSettled"

\* ------------------------------------------------------------------------
\* Properties of the clamp
\* ------------------------------------------------------------------------

\* C30: for every input the clamp of ed25519PrivateToCurve25519 yields a
\* scalar whose byte 0 has bits 0 to 2 clear, whose byte 31 has bit 7 clear and
\* bit 6 set, and whose every other bit is the input's; the clamp applied a
\* second time changes nothing.
C30_ClampedScalar ==
    cPc \in {"clamped", "reclamped"} =>
        /\ \A i \in 0..2 : Bit(cScalar.b0, i) = 0
        /\ \A i \in 3..7 : Bit(cScalar.b0, i) = Bit(cInput.b0, i)
        /\ Bit(cScalar.b31, 7) = 0
        /\ Bit(cScalar.b31, 6) = 1
        /\ \A i \in 0..5 : Bit(cScalar.b31, i) = Bit(cInput.b31, i)
        /\ cScalar.b1 = cInput.b1
        /\ cScalar \in [b0 : Bytes, b1 : Bytes, b31 : Bytes]
        /\ Clamp(cScalar) = cScalar

\* An input with every bit of bytes 0 and 31 set has been clamped twice:
\* 248 and 127 are left.
C30_Witness ==
    /\ cPc = "reclamped"
    /\ cInput.b0 = 255 /\ cInput.b31 = 255
    /\ cScalar.b0 = 248 /\ cScalar.b31 = 127

====
